---- MODULE Spec2Model ----
(***************************************************************************)
(* Model of the Libre-SOC ieee754fpu floating-point adder pipeline         *)
(* (FPADDBasePipe) and of the reservation-station wrapper FPADDMuxInOut    *)
(* as driven by the MuxInOut test harness.                                 *)
(***************************************************************************)
EXTENDS Integers, Sequences, FiniteSets, TLC

(***************************************************************************)
(* Bounds.  The floating-point format is a reduced IEEE-754 style format   *)
(* of FWidth bits in all: a sign bit, EWidth exponent-field bits and       *)
(* MWidth mantissa-field bits.  NumRows is the number of reservation       *)
(* stations and TLen the number of requests each sender submits.           *)
(***************************************************************************)
FWidth == 6
NumRows == 2
TLen == 2

EWidth == (FWidth + 1) \div 2
MWidth == FWidth - 1 - EWidth

(***************************************************************************)
(* Bit-vector helpers (nmigen Value semantics on naturals).                *)
(***************************************************************************)
Pow2(n) == 2 ^ n

Bit(x, i) == (x \div Pow2(i)) % 2

RECURSIVE BitAnd(_, _, _)
BitAnd(x, y, w) ==
    IF w = 0 THEN 0
    ELSE (x % 2) * (y % 2) + 2 * BitAnd(x \div 2, y \div 2, w - 1)

RECURSIVE BitOr(_, _, _)
BitOr(x, y, w) ==
    IF w = 0 THEN 0
    ELSE (IF (x % 2) + (y % 2) > 0 THEN 1 ELSE 0)
         + 2 * BitOr(x \div 2, y \div 2, w - 1)

B2N(b) == IF b THEN 1 ELSE 0

(***************************************************************************)
(* FPRoundingMode: the enum values.                                        *)
(***************************************************************************)
RNE == 0
RTZ == 1
RTP == 2
RTN == 3
RNA == 4
RTOP == 5
RTON == 6

FPRoundingMode == {RNE, RTZ, RTP, RTN, RNA, RTOP, RTON}

\* faulty variant of overflow_rounds_to_inf: RTP and RTN exchanged
overflow_rounds_to_inf_Swapped(rm, sign) ==
    IF rm = RNE THEN TRUE
    ELSE IF rm = RTZ THEN FALSE
    ELSE IF rm = RTP THEN sign = 1
    ELSE IF rm = RTN THEN sign = 0
    ELSE IF rm = RNA THEN TRUE
    ELSE IF rm = RTOP THEN FALSE
    ELSE FALSE

overflow_rounds_to_inf(rm, sign) ==
    IF rm = RNE THEN TRUE
    ELSE IF rm = RTZ THEN FALSE
    ELSE IF rm = RTP THEN sign = 0
    ELSE IF rm = RTN THEN sign = 1
    ELSE IF rm = RNA THEN TRUE
    ELSE IF rm = RTOP THEN FALSE
    ELSE FALSE

underflow_rounds_to_zero(rm, sign) ==
    IF rm = RNE THEN TRUE
    ELSE IF rm = RTZ THEN TRUE
    ELSE IF rm = RTP THEN sign = 1
    ELSE IF rm = RTN THEN sign = 0
    ELSE IF rm = RNA THEN TRUE
    ELSE IF rm = RTOP THEN FALSE
    ELSE FALSE

\* faulty variant of zero_sign: positive in every mode
zero_sign_Positive(rm) == 0

zero_sign(rm) ==
    IF rm = RNE THEN 0
    ELSE IF rm = RTZ THEN 0
    ELSE IF rm = RTP THEN 0
    ELSE IF rm = RTN THEN 1
    ELSE IF rm = RNA THEN 0
    ELSE IF rm = RTOP THEN 0
    ELSE 1

(***************************************************************************)
(* FPNumBaseRecord: field widths and the exponent constants.               *)
(***************************************************************************)
Width == FWidth
rmw == MWidth
e_width == EWidth + 2
e_max == Pow2(e_width - 3)
m_width_x == rmw + 1 + 3
m_width_z == rmw + 1
e_start == rmw
e_end == rmw + e_width - 2
P128 == e_max
P127 == e_max - 1
N127 == 0 - (e_max - 1)
N126 == 0 - (e_max - 2)

Values == 0 .. (Pow2(Width) - 1)

\* FPNumBaseRecord.create: v[0:e_start]=m, v[e_start:e_end]=e+P127, v[-1]=s
create(s, e, m) ==
    (m % Pow2(e_start))
    + Pow2(e_start) * ((e + P127) % Pow2(e_end - e_start))
    + Pow2(Width - 1) * s

\* faulty variant of z_nan: the low mantissa bit is set, not the top one
z_nan_LowBit(s) == create(s, P128, 1)

z_nan(s) == create(s, P128, Pow2(e_start - 1))

z_inf(s) == create(s, P128, 0)

\* faulty variant of z_zero: the sign is dropped
z_zero_NoSign(s) == create(0, N127, 0)

z_zero(s) == create(s, N127, 0)

\* faulty variant of max_normal: the mantissa is left at zero
max_normal_ZeroMantissa(s) == create(s, P127, 0)

max_normal(s) == create(s, P127, Pow2(m_width_z) - 1)

\* faulty variant of quieted_nan: the quiet bit is not set
quieted_nan_NoQuiet(other) ==
    create(other.s, P128, other.v % Pow2(e_start))

\* FPNumBaseRecord.quieted_nan(other)
quieted_nan(other) ==
    create(other.s, P128,
           BitOr(other.v % Pow2(e_start), Pow2(e_start - 1), e_start))

\* FPNumDecode.decode: three extra zero bits below the mantissa field
decode(v) ==
    [v |-> v,
     m |-> 8 * (v % Pow2(e_start)),
     e |-> ((v \div Pow2(e_start)) % Pow2(e_end - e_start)) - P127,
     s |-> Bit(v, Width - 1)]

\* FPNumBase classification signals
exp_128(x) == x.e = P128
exp_n127(x) == x.e = N127
exp_n126(x) == x.e = N126
m_zero(x) == x.m = 0
is_nan(x) == exp_128(x) /\ ~m_zero(x)
is_inf(x) == exp_128(x) /\ m_zero(x)
is_zero(x) == exp_n127(x) /\ m_zero(x)
is_overflowed(x) == x.e > P127
\* m_msbzero tests m[e_start]
is_denormalised(x) == exp_n126(x) /\ Bit(x.m, e_start) = 0

(***************************************************************************)
(* FPAddSpecialCasesMod.elaborate: decode, classify, and build the bypass  *)
(* value oz as a chain of Muxes accumulated in reverse order.              *)
(***************************************************************************)
Mux(sel, t, f) == IF sel THEN t ELSE f

\* faulty variant of FPAddSpecialCasesMod: the Muxes are accumulated in
\* list order, so the last match of the list wins instead of the first
FPAddSpecialCasesMod_ForwardOrder(i) ==
    LET a1 == decode(i.a)
        b1 == decode(i.b)
        s_nomatch == a1.s # b1.s
        s_match == a1.s = b1.s
        m_match == a1.m = b1.m
        e_match == a1.e = b1.e
        t_abnan == is_nan(a1) \/ is_nan(b1)
        t_a1inf == is_inf(a1)
        t_b1inf == is_inf(b1)
        t_abz == is_zero(a1) /\ is_zero(b1)
        t_a1zero == is_zero(a1)
        t_b1zero == is_zero(b1)
        t_aeqmb == s_nomatch /\ m_match /\ e_match
        t_special == t_aeqmb \/ t_b1zero \/ t_a1zero \/ t_abz
                     \/ t_b1inf \/ t_a1inf \/ t_abnan
        bexp128s == exp_128(b1) /\ s_nomatch
        z_default_zero == z_zero(zero_sign(i.rm))
        z_default_nan == z_nan(0)
        z_quieted_a == quieted_nan(a1)
        z_quieted_b == quieted_nan(b1)
        z_infa == z_inf(a1.s)
        z_infb == z_inf(b1.s)
        oz0 == 0
        oz1 == Mux(t_abnan, Mux(is_nan(a1), z_quieted_a, z_quieted_b), oz0)
        oz2 == Mux(t_a1inf, Mux(bexp128s, z_default_nan, z_infa), oz1)
        oz3 == Mux(t_b1inf, z_infb, oz2)
        oz4 == Mux(t_abz /\ s_match, a1.v, oz3)
        oz5 == Mux(t_aeqmb, z_default_zero, oz4)
        oz6 == Mux(t_a1zero, b1.v, oz5)
        oz7 == Mux(t_b1zero, a1.v, oz6)
    IN [a |-> a1, b |-> b1, out_do_z |-> t_special, oz |-> oz7,
        muxid |-> i.muxid, rm |-> i.rm]

\* faulty variant of FPAddSpecialCasesMod: the rounding mode is not handed
\* on, so the later stages see the reset value
FPAddSpecialCasesMod_DropRm(i) ==
    LET a1 == decode(i.a)
        b1 == decode(i.b)
        s_nomatch == a1.s # b1.s
        s_match == a1.s = b1.s
        m_match == a1.m = b1.m
        e_match == a1.e = b1.e
        t_abnan == is_nan(a1) \/ is_nan(b1)
        t_a1inf == is_inf(a1)
        t_b1inf == is_inf(b1)
        t_abz == is_zero(a1) /\ is_zero(b1)
        t_a1zero == is_zero(a1)
        t_b1zero == is_zero(b1)
        t_aeqmb == s_nomatch /\ m_match /\ e_match
        t_special == t_aeqmb \/ t_b1zero \/ t_a1zero \/ t_abz
                     \/ t_b1inf \/ t_a1inf \/ t_abnan
        bexp128s == exp_128(b1) /\ s_nomatch
        z_default_zero == z_zero(zero_sign(i.rm))
        z_default_nan == z_nan(0)
        z_quieted_a == quieted_nan(a1)
        z_quieted_b == quieted_nan(b1)
        z_infa == z_inf(a1.s)
        z_infb == z_inf(b1.s)
        oz0 == 0
        oz1 == Mux(t_b1zero, a1.v, oz0)
        oz2 == Mux(t_a1zero, b1.v, oz1)
        oz3 == Mux(t_aeqmb, z_default_zero, oz2)
        oz4 == Mux(t_abz /\ s_match, a1.v, oz3)
        oz5 == Mux(t_b1inf, z_infb, oz4)
        oz6 == Mux(t_a1inf, Mux(bexp128s, z_default_nan, z_infa), oz5)
        oz7 == Mux(t_abnan, Mux(is_nan(a1), z_quieted_a, z_quieted_b), oz6)
    IN [a |-> a1, b |-> b1, out_do_z |-> t_special, oz |-> oz7,
        muxid |-> i.muxid, rm |-> RNE]

FPAddSpecialCasesMod(i) ==
    LET a1 == decode(i.a)
        b1 == decode(i.b)
        s_nomatch == a1.s # b1.s
        s_match == a1.s = b1.s
        m_match == a1.m = b1.m
        e_match == a1.e = b1.e
        t_abnan == is_nan(a1) \/ is_nan(b1)
        t_a1inf == is_inf(a1)
        t_b1inf == is_inf(b1)
        t_abz == is_zero(a1) /\ is_zero(b1)
        t_a1zero == is_zero(a1)
        t_b1zero == is_zero(b1)
        t_aeqmb == s_nomatch /\ m_match /\ e_match
        t_special == t_aeqmb \/ t_b1zero \/ t_a1zero \/ t_abz
                     \/ t_b1inf \/ t_a1inf \/ t_abnan
        bexp128s == exp_128(b1) /\ s_nomatch
        z_default_zero == z_zero(zero_sign(i.rm))
        z_default_nan == z_nan(0)
        z_quieted_a == quieted_nan(a1)
        z_quieted_b == quieted_nan(b1)
        z_infa == z_inf(a1.s)
        z_infb == z_inf(b1.s)
        oz0 == 0
        oz1 == Mux(t_b1zero, a1.v, oz0)
        oz2 == Mux(t_a1zero, b1.v, oz1)
        oz3 == Mux(t_aeqmb, z_default_zero, oz2)
        oz4 == Mux(t_abz /\ s_match, a1.v, oz3)
        oz5 == Mux(t_b1inf, z_infb, oz4)
        oz6 == Mux(t_a1inf, Mux(bexp128s, z_default_nan, z_infa), oz5)
        oz7 == Mux(t_abnan, Mux(is_nan(a1), z_quieted_a, z_quieted_b), oz6)
    IN [a |-> a1, b |-> b1, out_do_z |-> t_special, oz |-> oz7,
        muxid |-> i.muxid, rm |-> i.rm]

(***************************************************************************)
(* FPBase.denormalise: a minimum-exponent operand has its exponent limited *)
(* to N126, any other operand gets the top mantissa bit set.               *)
(***************************************************************************)
denormalise(a) ==
    IF exp_n127(a) THEN [a EXCEPT !.e = N126]
    ELSE [a EXCEPT !.m = BitOr(a.m, Pow2(m_width_x - 1), m_width_x)]

FPAddDeNormMod(i) ==
    [i EXCEPT !.a = denormalise(i.a), !.b = denormalise(i.b)]

\* FPAddSpecialCasesDeNorm.get_chain: [smod, dmod].  A chain hands each
\* module the value its predecessor produced: CHOOSE over the singleton set
\* binds that value once.
FPAddSpecialCasesDeNorm(i) ==
    CHOOSE o \in {FPAddDeNormMod(sc) : sc \in {FPAddSpecialCasesMod(i)}} :
        TRUE

(***************************************************************************)
(* MultiShiftRMerge.elaborate: shift right by diff (clamped to width-1),   *)
(* OR-ing every shifted-out bit into bit 0.                                *)
(***************************************************************************)
\* faulty variant of MultiShiftRMerge: the shifted-out bits are dropped
MultiShiftRMerge_NoSticky(width, inp, diff) ==
    LET mw == width - 1
        maxslen == Mux(diff > mw, mw, diff)
    IN 2 * ((inp \div 2) \div Pow2(maxslen))

\* faulty variant of MultiShiftRMerge: the sticky mask is one bit short, so
\* the last bit shifted out is not merged
MultiShiftRMerge_ShortMask(width, inp, diff) ==
    LET mw == width - 1
        maxslen == Mux(diff > mw, mw, diff)
        maxsleni == Mux(diff > mw, 0, mw - diff)
        inp1 == inp \div 2
        rs == inp1 \div Pow2(maxslen)
        m_mask == (Pow2(width - 1) - 1) \div Pow2(maxsleni + 1)
        smask == BitAnd(inp1, m_mask, width - 1)
        stickybit == B2N(smask # 0 \/ (inp % 2) = 1)
    IN stickybit + 2 * rs

MultiShiftRMerge(width, inp, diff) ==
    LET mw == width - 1
        maxslen == Mux(diff > mw, mw, diff)
        maxsleni == Mux(diff > mw, 0, mw - diff)
        inp1 == inp \div 2
        rs == inp1 \div Pow2(maxslen)
        m_mask == (Pow2(width - 1) - 1) \div Pow2(maxsleni)
        smask == BitAnd(inp1, m_mask, width - 1)
        stickybit == B2N(smask # 0 \/ (inp % 2) = 1)
    IN stickybit + 2 * rs

(***************************************************************************)
(* Align + add (addalign stage).  The operand with the smaller exponent is *)
(* shifted right by the exponent difference through MultiShiftRMerge and   *)
(* takes the larger exponent; the aligned mantissas are added when the     *)
(* signs agree and otherwise the smaller is subtracted from the larger.    *)
(***************************************************************************)
FPAddAlignSingleMod(i) ==
    LET ediff == i.a.e - i.b.e
        ediffr == 0 - ediff
        egz == ediff > 0
        elz == ediffr > 0
        shifted(t_inp, tdiff) ==
            [t_inp EXCEPT !.m = MultiShiftRMerge(m_width_x, t_inp.m, tdiff),
                          !.e = t_inp.e + tdiff]
    IN IF egz THEN [i EXCEPT !.b = shifted(i.b, ediff)]
       ELSE IF elz THEN [i EXCEPT !.a = shifted(i.a, ediffr)]
       ELSE i

FPAddStage0Mod(i) ==
    LET seq == i.a.s = i.b.s
        mge == i.a.m >= i.b.m
        sm == seq \/ mge
        op1 == Mux(sm, i.a.m, i.b.m)
        op2 == Mux(sm, i.b.m, i.a.m)
        tot == Mux(seq, op1 + op2, op1 - op2) % Pow2(m_width_x + 1)
    IN [z |-> [s |-> Mux(sm, i.a.s, i.b.s), e |-> i.a.e, m |-> 0],
        tot |-> tot, out_do_z |-> i.out_do_z, oz |-> i.oz,
        muxid |-> i.muxid, rm |-> i.rm]

\* the sum's carry bit set: take the mantissa one bit higher, exponent + 1
FPAddStage1Mod(i) ==
    LET tot == i.tot
        top == Bit(tot, m_width_x) = 1
        zm == Mux(top, tot \div 16, (tot \div 8) % Pow2(m_width_z))
        of == [m0 |-> Mux(top, Bit(tot, 4), Bit(tot, 3)),
               guard |-> Mux(top, Bit(tot, 3), Bit(tot, 2)),
               round_bit |-> Mux(top, Bit(tot, 2), Bit(tot, 1)),
               sticky |-> Mux(top, B2N(Bit(tot, 1) = 1 \/ Bit(tot, 0) = 1),
                                   Bit(tot, 0)),
               sign |-> i.z.s,
               rm |-> i.rm]
    IN [z |-> [s |-> i.z.s, e |-> Mux(top, i.z.e + 1, i.z.e), m |-> zm],
        of |-> of, out_do_z |-> i.out_do_z, oz |-> i.oz,
        muxid |-> i.muxid, rm |-> i.rm]

\* FPAddAlignSingleAdd chain: align, add stage 0, add stage 1
FPAddAlignSingleAdd(i) ==
    CHOOSE o \in {FPAddStage1Mod(a0) :
                    a0 \in {FPAddStage0Mod(al) :
                              al \in {FPAddAlignSingleMod(i)}}} : TRUE

(***************************************************************************)
(* Overflow.roundz: the round-up decision selected by the rounding mode.   *)
(***************************************************************************)
\* faulty variant of roundz_rne: a tie rounds up whatever the mantissa LSB
roundz_rne_TiesUp(of) == of.guard = 1

roundz_rne(of) ==
    of.guard = 1 /\ (of.round_bit = 1 \/ of.sticky = 1 \/ of.m0 = 1)

roundz_rna(of) == of.guard = 1

roundz_rtn(of) ==
    of.sign = 1 /\ (of.guard = 1 \/ of.round_bit = 1 \/ of.sticky = 1)

roundz_rto(of) ==
    of.m0 = 0 /\ (of.guard = 1 \/ of.round_bit = 1 \/ of.sticky = 1)

roundz_rtp(of) ==
    of.sign = 0 /\ (of.guard = 1 \/ of.round_bit = 1 \/ of.sticky = 1)

roundz_rtz(of) == FALSE

roundz(of) ==
    IF of.rm = RNA THEN roundz_rna(of)
    ELSE IF of.rm = RNE THEN roundz_rne(of)
    ELSE IF of.rm = RTN THEN roundz_rtn(of)
    ELSE IF of.rm = RTOP THEN roundz_rto(of)
    ELSE IF of.rm = RTON THEN roundz_rto(of)
    ELSE IF of.rm = RTP THEN roundz_rtp(of)
    ELSE roundz_rtz(of)

(***************************************************************************)
(* FPBase.normalise_1 / normalise_2: repeated until the condition fails.   *)
(* The state is the pair of the number z and the overflow bits of.         *)
(***************************************************************************)
RECURSIVE normalise_1(_)
normalise_1(zo) ==
    LET z == zo.z
        of == zo.of
    IN IF Bit(z.m, m_width_z - 1) = 0 /\ z.e > N126
       THEN CHOOSE o \in {normalise_1(n) : n \in
              {[z |-> [z EXCEPT !.e = z.e - 1,
                                !.m = ((2 * z.m) % Pow2(m_width_z))
                                      + of.guard],
                of |-> [of EXCEPT !.guard = of.round_bit,
                                  !.round_bit = 0,
                                  !.m0 = of.guard]]}} : TRUE
       ELSE zo

RECURSIVE normalise_2(_)
normalise_2(zo) ==
    LET z == zo.z
        of == zo.of
    IN IF z.e < N126
       THEN CHOOSE o \in {normalise_2(n) : n \in
              {[z |-> [z EXCEPT !.e = z.e + 1, !.m = z.m \div 2],
                of |-> [of EXCEPT !.guard = Bit(z.m, 0),
                                  !.m0 = Bit(z.m, 1),
                                  !.round_bit = of.guard,
                                  !.sticky = B2N(of.sticky = 1
                                                 \/ of.round_bit = 1)]]}} :
                TRUE
       ELSE zo

FPNorm1ModSingle(i) ==
    CHOOSE o \in
        {[z |-> n.z, of |-> n.of, roundz |-> roundz(n.of),
          out_do_z |-> i.out_do_z, oz |-> i.oz, muxid |-> i.muxid,
          rm |-> i.rm] :
            n \in {normalise_2(n1) :
                     n1 \in {normalise_1([z |-> i.z, of |-> i.of])}}} : TRUE

(***************************************************************************)
(* FPRoundMod.elaborate                                                    *)
(***************************************************************************)
\* faulty variant of FPRoundMod: the exponent goes up with every round-up
FPRoundMod_ExpAlways(i) ==
    LET im == i.z.m
        ie == i.z.e
    IN [z |-> [s |-> i.z.s,
               m |-> Mux(i.roundz, (im + 1) % Pow2(m_width_z), im),
               e |-> Mux(i.roundz, ie + 1, ie)],
        out_do_z |-> i.out_do_z, oz |-> i.oz, muxid |-> i.muxid,
        rm |-> i.rm]

\* faulty variant of FPRoundMod: the muxid is not copied to the output
FPRoundMod_NoCtx(i) ==
    LET im == i.z.m
        ie == i.z.e
        msb1s == im = Pow2(m_width_z) - 1
    IN [z |-> [s |-> i.z.s,
               m |-> Mux(i.roundz, (im + 1) % Pow2(m_width_z), im),
               e |-> Mux(msb1s /\ i.roundz, ie + 1, ie)],
        out_do_z |-> i.out_do_z, oz |-> i.oz, muxid |-> 0,
        rm |-> i.rm]

FPRoundMod(i) ==
    LET im == i.z.m
        ie == i.z.e
        msb1s == im = Pow2(m_width_z) - 1
    IN [z |-> [s |-> i.z.s,
               m |-> Mux(i.roundz, (im + 1) % Pow2(m_width_z), im),
               e |-> Mux(msb1s /\ i.roundz, ie + 1, ie)],
        out_do_z |-> i.out_do_z, oz |-> i.oz, muxid |-> i.muxid,
        rm |-> i.rm]

\* faulty variant of FPCorrectionsMod: a denormalised result keeps N126
FPCorrectionsMod_Skip(i) == i

\* FPBase.corrections: a denormalised result gets the exponent N127
FPCorrectionsMod(i) ==
    IF is_denormalised(i.z) THEN [i EXCEPT !.z.e = N127] ELSE i

(***************************************************************************)
(* FPPackMod.elaborate                                                     *)
(***************************************************************************)
\* faulty variant of FPPackMod: overflow is tested before the bypass
FPPackMod_OverflowFirst(i) ==
    LET z == IF is_overflowed(i.z)
             THEN IF overflow_rounds_to_inf(i.rm, i.z.s)
                  THEN z_inf(i.z.s)
                  ELSE max_normal(i.z.s)
             ELSE IF ~i.out_do_z THEN create(i.z.s, i.z.e, i.z.m)
             ELSE i.oz
    IN [z |-> z, muxid |-> i.muxid]

\* faulty variant of FPPackMod: the context (muxid) is not copied through
FPPackMod_NoCtx(i) ==
    LET z == IF ~i.out_do_z
             THEN IF is_overflowed(i.z)
                  THEN IF overflow_rounds_to_inf(i.rm, i.z.s)
                       THEN z_inf(i.z.s)
                       ELSE max_normal(i.z.s)
                  ELSE create(i.z.s, i.z.e, i.z.m)
             ELSE i.oz
    IN [z |-> z, muxid |-> 0]

FPPackMod(i) ==
    LET z == IF ~i.out_do_z
             THEN IF is_overflowed(i.z)
                  THEN IF overflow_rounds_to_inf(i.rm, i.z.s)
                       THEN z_inf(i.z.s)
                       ELSE max_normal(i.z.s)
                  ELSE create(i.z.s, i.z.e, i.z.m)
             ELSE i.oz
    IN [z |-> z, muxid |-> i.muxid]

\* FPNormToPack chain: normalise, round, corrections, pack
FPNormToPack(i) ==
    CHOOSE o \in {FPPackMod(c) :
                    c \in {FPCorrectionsMod(r) :
                             r \in {FPRoundMod(n) :
                                      n \in {FPNorm1ModSingle(i)}}}} : TRUE

\* FPADDBasePipe: pipe1, pipe2, pipe3 connected in this order
FPADDBasePipe(i) ==
    CHOOSE o \in {FPNormToPack(p2) :
                    p2 \in {FPAddAlignSingleAdd(p1) :
                              p1 \in {FPAddSpecialCasesDeNorm(i)}}} : TRUE

(***************************************************************************)
(* The reference the formal test compares against: the IEEE-754 sum or     *)
(* difference of the two bit patterns, rounded once in the given mode.     *)
(* A finite value is held exactly, as an integer count of the smallest     *)
(* subnormal step.                                                         *)
(***************************************************************************)
f_sign(x) == Bit(x, Width - 1)
f_exp(x) == (x \div Pow2(MWidth)) % Pow2(EWidth)
f_man(x) == x % Pow2(MWidth)
exponent_inf_nan == Pow2(EWidth) - 1
f_is_nan(x) == f_exp(x) = exponent_inf_nan /\ f_man(x) # 0
f_is_inf(x) == f_exp(x) = exponent_inf_nan /\ f_man(x) = 0
f_is_zero(x) == f_exp(x) = 0 /\ f_man(x) = 0
f_neg(x) == (x + Pow2(Width - 1)) % Pow2(Width)

f_mag(x) ==
    IF f_exp(x) = 0 THEN f_man(x)
    ELSE (f_man(x) + Pow2(MWidth)) * Pow2(f_exp(x) - 1)

f_val(x) == IF f_sign(x) = 1 THEN 0 - f_mag(x) ELSE f_mag(x)

\* exponent field of the binade holding magnitude mag
RECURSIVE f_binade(_, _)
f_binade(mag, ef) ==
    IF mag \div Pow2(ef - 1) < Pow2(MWidth + 1) THEN ef
    ELSE f_binade(mag, ef + 1)

\* round a non-zero exact magnitude in one of the five smtlib2 modes
f_round(sign, mag, rm) ==
    LET ef == f_binade(mag, 1)
        q == Pow2(ef - 1)
        t == mag \div q
        r == mag % q
        inc == IF rm = RNE THEN 2 * r > q \/ (2 * r = q /\ t % 2 = 1)
               ELSE IF rm = RNA THEN 2 * r >= q
               ELSE IF rm = RTP THEN sign = 0 /\ r > 0
               ELSE IF rm = RTN THEN sign = 1 /\ r > 0
               ELSE FALSE
        bits == (ef - 1) * Pow2(MWidth) + t + B2N(inc)
        infbits == exponent_inf_nan * Pow2(MWidth)
        toinf == rm = RNE \/ rm = RNA \/ (rm = RTP /\ sign = 0)
                 \/ (rm = RTN /\ sign = 1)
    IN sign * Pow2(Width - 1)
       + (IF bits >= infbits
          THEN (IF toinf THEN infbits ELSE infbits - 1)
          ELSE bits)

\* f_nan or the bit pattern of the smtlib2 fp.add result
f_nan == 0 - 1

smt_add(a, b, rm) ==
    IF f_is_nan(a) \/ f_is_nan(b) THEN f_nan
    ELSE IF f_is_inf(a)
         THEN IF f_is_inf(b) /\ f_sign(a) # f_sign(b) THEN f_nan ELSE a
    ELSE IF f_is_inf(b) THEN b
    ELSE LET sum == f_val(a) + f_val(b)
         IN IF sum = 0
            THEN IF f_is_zero(a) /\ f_is_zero(b) /\ f_sign(a) = f_sign(b)
                 THEN a
                 ELSE (IF rm = RTN THEN Pow2(Width - 1) ELSE 0)
            ELSE IF sum < 0 THEN f_round(1, 0 - sum, rm)
            ELSE f_round(0, sum, rm)

smt_add_sub(a, b, rm, is_sub) ==
    IF is_sub THEN smt_add(a, f_neg(b), rm)
    ELSE smt_add(a, b, rm)

\* expected_fp of the test: round-to-odd picks between RTP and RTN results
expected_fp(a, b, rm, is_sub) ==
    IF rm = RTOP \/ rm = RTON
    THEN LET rounded_up == smt_add_sub(a, b, RTP, is_sub)
             rounded_down == smt_add_sub(a, b, RTN, is_sub)
         IN IF rounded_up = f_nan THEN f_nan
            ELSE LET use_rounded_up ==
                         rounded_up % 2 = 1
                         \/ (rm = RTOP /\ f_is_zero(rounded_up)
                             /\ f_is_zero(rounded_down))
                 IN IF use_rounded_up THEN rounded_up ELSE rounded_down
    ELSE smt_add_sub(a, b, rm, is_sub)

\* expected bits of the test: NaN results are the quieted first NaN operand
expected(a, b, rm, is_sub) ==
    LET e_fp == expected_fp(a, b, rm, is_sub)
        quiet_bit == Pow2(MWidth - 1)
        nan_exponent == exponent_inf_nan * Pow2(MWidth)
    IN IF e_fp = f_nan
       THEN IF f_is_nan(a) THEN BitOr(a, quiet_bit, Width)
            ELSE IF f_is_nan(b) THEN BitOr(b, quiet_bit, Width)
            ELSE nan_exponent + quiet_bit
       ELSE e_fp

(***************************************************************************)
(* The fused multiply-add pipeline FPFMABasePipe, z = (a * c) + b rounded  *)
(* once.  The three margins of the expanded mantissa are one number in the *)
(* source (16), sized for binary16 and wider, where the product exponent   *)
(* fits the expanded exponent shape.  Here they are the bound ExtraBits,   *)
(* sized for the reduced format: with it the product exponent still fits,  *)
(* and an addend far above the product (the branch that leaves the addend  *)
(* unshifted) occurs.                                                      *)
(***************************************************************************)
ExtraBits == 2

EXPANDED_MANTISSA_SPACE_BETWEEN_SUM_PROD == ExtraBits
EXPANDED_MANTISSA_EXTRA_LSBS == ExtraBits
EXPANDED_MANTISSA_EXTRA_MSBS == ExtraBits

\* FPFormat properties
fraction_width == MWidth
exponent_bias == Pow2(EWidth - 1) - 1
exponent_mask == exponent_inf_nan * Pow2(MWidth)
e_sub == 0 - exponent_bias

\* widths of the shapes of fpfma/util.py
expanded_exponent_shape == EWidth + 3
expanded_mantissa_shape ==
    (fraction_width + 1) * 3 + EXPANDED_MANTISSA_EXTRA_MSBS
    + EXPANDED_MANTISSA_SPACE_BETWEEN_SUM_PROD + EXPANDED_MANTISSA_EXTRA_LSBS
multiplicand_mantissa_shape == fraction_width + 1
product_mantissa_shape == multiplicand_mantissa_shape * 2

\* assignment to a signed Signal of w bits: the low w bits, two's complement
signed(v, w) ==
    LET u == v % Pow2(w)
    IN IF u >= Pow2(w - 1) THEN u - Pow2(w) ELSE u

\* nmigen bits_for(n): the bits an unsigned n takes
RECURSIVE bits_for(_)
bits_for(n) == IF n < 2 THEN 1 ELSE 1 + bits_for(n \div 2)

\* faulty variant of get_exponent_value: no adjustment for a subnormal
get_exponent_value_NoSubnormal(x) == f_exp(x) - exponent_bias

\* FPFormat.get_exponent_value: a subnormal has the minimum normal exponent
get_exponent_value(x) == f_exp(x) + B2N(f_exp(x) = 0) - exponent_bias

\* FPFormat.get_mantissa_value: the implicit bit made explicit
get_mantissa_value(x) ==
    B2N(f_exp(x) # 0) * Pow2(fraction_width) + f_man(x)

\* faulty variant of to_quiet_nan: the quiet bit is not set
to_quiet_nan_NoQuiet(x) == BitOr(x, exponent_mask, Width)

\* FPFormat.to_quiet_nan, zero, inf, quiet_nan
to_quiet_nan(x) ==
    BitOr(BitOr(x, Pow2(MWidth - 1), Width), exponent_mask, Width)

zero(sign) == B2N(sign # 0) * Pow2(EWidth + MWidth)

inf(sign) == BitOr(zero(sign), exponent_mask, Width)

quiet_nan == to_quiet_nan(zero(0))

\* faulty variant of FPFMASpecialCasesDeNorm: the product exponent is taken
\* even when the addend's is larger
FPFMASpecialCasesDeNorm_ProdExponent(inp) ==
    LET ees == expanded_exponent_shape
        a_exponent == signed(get_exponent_value(inp.a), ees)
        b_exponent_in == signed(get_exponent_value(inp.b), ees)
        c_exponent == signed(get_exponent_value(inp.c), ees)
        b_exponent == signed(b_exponent_in + EXPANDED_MANTISSA_EXTRA_MSBS,
                             ees)
        PROD_STAY_NORM_SHIFT == 1
        extra_prod_exponent == expanded_mantissa_shape
                               - product_mantissa_shape
                               + PROD_STAY_NORM_SHIFT
                               - EXPANDED_MANTISSA_EXTRA_LSBS
        prod_exponent == signed(a_exponent + c_exponent
                                + extra_prod_exponent, ees)
        prod_exp_minus_b_exp == signed(prod_exponent - b_exponent, ees)
        b_mantissa_in == get_mantissa_value(inp.b)
        p_sign == (f_sign(inp.a) + f_sign(inp.c) + inp.negate_product) % 2
        b_sign == (f_sign(inp.b) + inp.negate_addend) % 2
        exponent == prod_exponent
        b_shift == IF prod_exp_minus_b_exp >= 0 THEN prod_exp_minus_b_exp
                   ELSE 0
        rwidth == expanded_mantissa_shape - EXPANDED_MANTISSA_EXTRA_MSBS
        rshiftm == MultiShiftRMerge(
                       rwidth,
                       b_mantissa_in * Pow2(rwidth - (fraction_width + 1)),
                       b_shift % Pow2(ees - 1))
        a_zero == f_is_zero(inp.a)
        b_zero == f_is_zero(inp.b)
        c_zero == f_is_zero(inp.c)
        a_inf == f_is_inf(inp.a)
        b_inf == f_is_inf(inp.b)
        c_inf == f_is_inf(inp.c)
        bypass ==
            IF f_is_nan(inp.a) THEN <<to_quiet_nan(inp.a), TRUE>>
            ELSE IF f_is_nan(inp.b) THEN <<to_quiet_nan(inp.b), TRUE>>
            ELSE IF f_is_nan(inp.c) THEN <<to_quiet_nan(inp.c), TRUE>>
            ELSE IF (a_zero /\ c_inf) \/ (a_inf /\ c_zero)
                 THEN <<quiet_nan, TRUE>>
            ELSE IF (a_inf \/ c_inf) /\ b_inf /\ p_sign # b_sign
                 THEN <<quiet_nan, TRUE>>
            ELSE IF a_inf \/ c_inf THEN <<inf(p_sign), TRUE>>
            ELSE IF b_inf THEN <<inf(b_sign), TRUE>>
            ELSE IF (a_zero \/ c_zero) /\ b_zero /\ p_sign = b_sign
                 THEN <<zero(p_sign), TRUE>>
            ELSE IF (a_zero \/ c_zero) /\ ~b_zero
                 \* b ^ zero(negate_addend): only the sign bit can flip
                 THEN <<(inp.b + zero(inp.negate_addend)) % Pow2(Width),
                        TRUE>>
            ELSE <<0, FALSE>>
    IN [sign |-> p_sign,
        exponent |-> exponent,
        a_mantissa |-> get_mantissa_value(inp.a),
        b_mantissa |-> rshiftm,
        c_mantissa |-> get_mantissa_value(inp.c),
        do_sub |-> p_sign # b_sign,
        bypassed_z |-> bypass[1],
        do_bypass |-> bypass[2],
        muxid |-> inp.muxid,
        rm |-> inp.rm]

(***************************************************************************)
(* FPFMASpecialCasesDeNorm.elaborate: the exponent of the intermediate,    *)
(* the addend mantissa shifted into place, and the bypass decision.        *)
(***************************************************************************)
FPFMASpecialCasesDeNorm(inp) ==
    LET ees == expanded_exponent_shape
        a_exponent == signed(get_exponent_value(inp.a), ees)
        b_exponent_in == signed(get_exponent_value(inp.b), ees)
        c_exponent == signed(get_exponent_value(inp.c), ees)
        b_exponent == signed(b_exponent_in + EXPANDED_MANTISSA_EXTRA_MSBS,
                             ees)
        PROD_STAY_NORM_SHIFT == 1
        extra_prod_exponent == expanded_mantissa_shape
                               - product_mantissa_shape
                               + PROD_STAY_NORM_SHIFT
                               - EXPANDED_MANTISSA_EXTRA_LSBS
        prod_exponent == signed(a_exponent + c_exponent
                                + extra_prod_exponent, ees)
        prod_exp_minus_b_exp == signed(prod_exponent - b_exponent, ees)
        b_mantissa_in == get_mantissa_value(inp.b)
        p_sign == (f_sign(inp.a) + f_sign(inp.c) + inp.negate_product) % 2
        b_sign == (f_sign(inp.b) + inp.negate_addend) % 2
        exponent == IF prod_exp_minus_b_exp >= 0 THEN prod_exponent
                    ELSE b_exponent
        b_shift == IF prod_exp_minus_b_exp >= 0 THEN prod_exp_minus_b_exp
                   ELSE 0
        rwidth == expanded_mantissa_shape - EXPANDED_MANTISSA_EXTRA_MSBS
        rshiftm == MultiShiftRMerge(
                       rwidth,
                       b_mantissa_in * Pow2(rwidth - (fraction_width + 1)),
                       b_shift % Pow2(ees - 1))
        a_zero == f_is_zero(inp.a)
        b_zero == f_is_zero(inp.b)
        c_zero == f_is_zero(inp.c)
        a_inf == f_is_inf(inp.a)
        b_inf == f_is_inf(inp.b)
        c_inf == f_is_inf(inp.c)
        bypass ==
            IF f_is_nan(inp.a) THEN <<to_quiet_nan(inp.a), TRUE>>
            ELSE IF f_is_nan(inp.b) THEN <<to_quiet_nan(inp.b), TRUE>>
            ELSE IF f_is_nan(inp.c) THEN <<to_quiet_nan(inp.c), TRUE>>
            ELSE IF (a_zero /\ c_inf) \/ (a_inf /\ c_zero)
                 THEN <<quiet_nan, TRUE>>
            ELSE IF (a_inf \/ c_inf) /\ b_inf /\ p_sign # b_sign
                 THEN <<quiet_nan, TRUE>>
            ELSE IF a_inf \/ c_inf THEN <<inf(p_sign), TRUE>>
            ELSE IF b_inf THEN <<inf(b_sign), TRUE>>
            ELSE IF (a_zero \/ c_zero) /\ b_zero /\ p_sign = b_sign
                 THEN <<zero(p_sign), TRUE>>
            ELSE IF (a_zero \/ c_zero) /\ ~b_zero
                 \* b ^ zero(negate_addend): only the sign bit can flip
                 THEN <<(inp.b + zero(inp.negate_addend)) % Pow2(Width),
                        TRUE>>
            ELSE <<0, FALSE>>
    IN [sign |-> p_sign,
        exponent |-> exponent,
        a_mantissa |-> get_mantissa_value(inp.a),
        b_mantissa |-> rshiftm,
        c_mantissa |-> get_mantissa_value(inp.c),
        do_sub |-> p_sign # b_sign,
        bypassed_z |-> bypass[1],
        do_bypass |-> bypass[2],
        muxid |-> inp.muxid,
        rm |-> inp.rm]

\* faulty variant of FPFMAMain: a zero sum is not made a bypass
FPFMAMain_NoZeroBypass(inp) ==
    LET product_v == inp.a_mantissa * inp.c_mantissa
        sum_v == product_v * Pow2(EXPANDED_MANTISSA_EXTRA_LSBS)
                 + (IF inp.do_sub THEN 0 - inp.b_mantissa
                    ELSE inp.b_mantissa)
        sum == signed(sum_v, expanded_mantissa_shape)
        sum_neg == sum < 0
        sum_zero == sum = 0
        fresh == FALSE
    IN [sign |-> (B2N(sum_neg) + inp.sign) % 2,
        exponent |-> inp.exponent,
        mantissa |-> signed(IF sum_neg THEN 0 - sum ELSE sum,
                            expanded_mantissa_shape),
        bypassed_z |-> IF fresh THEN zero(zero_sign(inp.rm))
                       ELSE inp.bypassed_z,
        do_bypass |-> IF fresh THEN TRUE ELSE inp.do_bypass,
        muxid |-> inp.muxid,
        rm |-> inp.rm]

\* faulty variant of FPFMAMain: the context is not copied to the output
FPFMAMain_NoCtx(inp) ==
    LET product_v == inp.a_mantissa * inp.c_mantissa
        sum_v == product_v * Pow2(EXPANDED_MANTISSA_EXTRA_LSBS)
                 + (IF inp.do_sub THEN 0 - inp.b_mantissa
                    ELSE inp.b_mantissa)
        sum == signed(sum_v, expanded_mantissa_shape)
        sum_neg == sum < 0
        sum_zero == sum = 0
        fresh == sum_zero /\ ~inp.do_bypass
    IN [sign |-> (B2N(sum_neg) + inp.sign) % 2,
        exponent |-> inp.exponent,
        mantissa |-> signed(IF sum_neg THEN 0 - sum ELSE sum,
                            expanded_mantissa_shape),
        bypassed_z |-> IF fresh THEN zero(zero_sign(inp.rm))
                       ELSE inp.bypassed_z,
        do_bypass |-> IF fresh THEN TRUE ELSE inp.do_bypass,
        muxid |-> 0,
        rm |-> inp.rm]

(***************************************************************************)
(* FPFMAMain.elaborate: the full product plus or minus the aligned addend; *)
(* an exact zero sum becomes a bypass with the sign the mode gives zero.   *)
(***************************************************************************)
FPFMAMain(inp) ==
    LET product_v == inp.a_mantissa * inp.c_mantissa
        sum_v == product_v * Pow2(EXPANDED_MANTISSA_EXTRA_LSBS)
                 + (IF inp.do_sub THEN 0 - inp.b_mantissa
                    ELSE inp.b_mantissa)
        sum == signed(sum_v, expanded_mantissa_shape)
        sum_neg == sum < 0
        sum_zero == sum = 0
        fresh == sum_zero /\ ~inp.do_bypass
    IN [sign |-> (B2N(sum_neg) + inp.sign) % 2,
        exponent |-> inp.exponent,
        mantissa |-> signed(IF sum_neg THEN 0 - sum ELSE sum,
                            expanded_mantissa_shape),
        bypassed_z |-> IF fresh THEN zero(zero_sign(inp.rm))
                       ELSE inp.bypassed_z,
        do_bypass |-> IF fresh THEN TRUE ELSE inp.do_bypass,
        muxid |-> inp.muxid,
        rm |-> inp.rm]

\* PriorityEncoder over the reversed mantissa: the number of leading zeros
\* of the w-bit value m, 0 when no bit is set
RECURSIVE pri_enc(_, _)
pri_enc(m, w) ==
    IF m = 0 \/ w = 0 \/ Bit(m, w - 1) = 1 THEN 0
    ELSE 1 + pri_enc(m, w - 1)

\* faulty variant of FPFMANorm: the shift is not limited by the exponent
FPFMANorm_NoClamp(inp) ==
    LET w == expanded_mantissa_shape
        sw == bits_for(w - 1)
        mantissa == inp.mantissa % Pow2(w)
        unrestricted_shift_amount == pri_enc(mantissa, w) % Pow2(sw)
        limit == inp.exponent - (1 + e_sub)
        shift_amount == unrestricted_shift_amount
        n_mantissa == (mantissa * Pow2(shift_amount)) % Pow2(w)
        zm == n_mantissa \div Pow2(w - m_width_z)
        of == [guard |-> Bit(n_mantissa, w - (m_width_z + 1)),
               round_bit |-> Bit(n_mantissa, w - (m_width_z + 2)),
               sticky |-> B2N(n_mantissa % Pow2(w - (m_width_z + 2)) # 0),
               m0 |-> zm % 2,
               sign |-> inp.sign,
               rm |-> inp.rm]
    IN [z |-> [s |-> inp.sign,
               e |-> signed(inp.exponent - shift_amount, e_width),
               m |-> zm],
        roundz |-> roundz(of),
        out_do_z |-> inp.do_bypass,
        oz |-> inp.bypassed_z,
        muxid |-> inp.muxid,
        rm |-> inp.rm]

(***************************************************************************)
(* FPFMANorm.elaborate: shift the leading one to the top, but no further   *)
(* than the minimum exponent allows; the bits below the result mantissa    *)
(* are guard, round and sticky.                                            *)
(***************************************************************************)
FPFMANorm(inp) ==
    LET w == expanded_mantissa_shape
        sw == bits_for(w - 1)
        mantissa == inp.mantissa % Pow2(w)
        unrestricted_shift_amount == pri_enc(mantissa, w) % Pow2(sw)
        limit == inp.exponent - (1 + e_sub)
        shift_amount == IF limit < unrestricted_shift_amount
                        THEN limit % Pow2(sw)
                        ELSE unrestricted_shift_amount
        n_mantissa == (mantissa * Pow2(shift_amount)) % Pow2(w)
        zm == n_mantissa \div Pow2(w - m_width_z)
        of == [guard |-> Bit(n_mantissa, w - (m_width_z + 1)),
               round_bit |-> Bit(n_mantissa, w - (m_width_z + 2)),
               sticky |-> B2N(n_mantissa % Pow2(w - (m_width_z + 2)) # 0),
               m0 |-> zm % 2,
               sign |-> inp.sign,
               rm |-> inp.rm]
    IN [z |-> [s |-> inp.sign,
               e |-> signed(inp.exponent - shift_amount, e_width),
               m |-> zm],
        roundz |-> roundz(of),
        out_do_z |-> inp.do_bypass,
        oz |-> inp.bypassed_z,
        muxid |-> inp.muxid,
        rm |-> inp.rm]

\* FPFMANormToPack chain: norm, round, corrections, pack
FPFMANormToPack(i) ==
    CHOOSE o \in {FPPackMod(c) :
                    c \in {FPCorrectionsMod(r) :
                             r \in {FPRoundMod(n) :
                                      n \in {FPFMANorm(i)}}}} : TRUE

(***************************************************************************)
(* The reference the FMA formal test compares against: the IEEE-754 fused  *)
(* multiply-add (a * c) + b of the bit patterns, rounded once.  The exact  *)
(* sum is held as an integer n with a scale k: n / 2^k smallest subnormal  *)
(* steps.                                                                  *)
(***************************************************************************)
\* significand and exponent of a finite value: f_sig * 2^f_e steps
f_sig(x) == IF f_exp(x) = 0 THEN f_man(x) ELSE f_man(x) + Pow2(MWidth)
f_e(x) == IF f_exp(x) = 0 THEN 0 ELSE f_exp(x) - 1

\* exponent field of the binade holding n / 2^k steps
RECURSIVE f_binade_k(_, _, _)
f_binade_k(n, k, ef) ==
    IF n \div Pow2(ef - 1 + k) < Pow2(MWidth + 1) THEN ef
    ELSE f_binade_k(n, k, ef + 1)

\* round the non-zero exact magnitude n / 2^k steps in an smtlib2 mode
f_round_k(sign, n, k, rm) ==
    LET ef == f_binade_k(n, k, 1)
        q == Pow2(ef - 1 + k)
        t == n \div q
        r == n % q
        inc == IF rm = RNE THEN 2 * r > q \/ (2 * r = q /\ t % 2 = 1)
               ELSE IF rm = RNA THEN 2 * r >= q
               ELSE IF rm = RTP THEN sign = 0 /\ r > 0
               ELSE IF rm = RTN THEN sign = 1 /\ r > 0
               ELSE FALSE
        bits == (ef - 1) * Pow2(MWidth) + t + B2N(inc)
        infbits == exponent_inf_nan * Pow2(MWidth)
        toinf == rm = RNE \/ rm = RNA \/ (rm = RTP /\ sign = 0)
                 \/ (rm = RTN /\ sign = 1)
    IN sign * Pow2(Width - 1)
       + (IF bits >= infbits
          THEN (IF toinf THEN infbits ELSE infbits - 1)
          ELSE bits)

\* f_nan or the bit pattern of the smtlib2 fp.fma result a * c + b
smt_fma(a, c, b, rm) ==
    LET ps == (f_sign(a) + f_sign(c)) % 2
        bs == f_sign(b)
    IN IF f_is_nan(a) \/ f_is_nan(b) \/ f_is_nan(c) THEN f_nan
       ELSE IF (f_is_inf(a) /\ f_is_zero(c)) \/ (f_is_zero(a) /\ f_is_inf(c))
            THEN f_nan
       ELSE IF f_is_inf(a) \/ f_is_inf(c)
            THEN IF f_is_inf(b) /\ bs # ps THEN f_nan
                 ELSE ps * Pow2(Width - 1) + exponent_inf_nan * Pow2(MWidth)
       ELSE IF f_is_inf(b) THEN b
       ELSE LET p == f_sig(a) * f_sig(c)
                pe == f_e(a) + f_e(c) + 1 - (Pow2(EWidth - 1) - 1) - MWidth
                bm == f_sig(b)
                be == f_e(b)
                q == IF pe < be THEN pe ELSE be
                pv == p * Pow2(pe - q)
                bv == bm * Pow2(be - q)
                sum == (IF ps = 1 THEN 0 - pv ELSE pv)
                       + (IF bs = 1 THEN 0 - bv ELSE bv)
                mag == IF sum < 0 THEN 0 - sum ELSE sum
                n == IF q > 0 THEN mag * Pow2(q) ELSE mag
                k == IF q > 0 THEN 0 ELSE 0 - q
            IN IF sum = 0
               THEN IF p = 0 /\ bm = 0 /\ ps = bs
                    THEN ps * Pow2(Width - 1)
                    ELSE (IF rm = RTN THEN Pow2(Width - 1) ELSE 0)
               ELSE f_round_k(B2N(sum < 0), n, k, rm)

\* smt_op of the test: the negations are applied to the operands
smt_op(a, b, c, rm, negate_addend, negate_product) ==
    smt_fma(IF negate_product = 1 THEN f_neg(a) ELSE a,
            c,
            IF negate_addend = 1 THEN f_neg(b) ELSE b,
            rm)

\* expected_fp of the test: round-to-odd picks between RTP and RTN results
fma_expected_fp(a, b, c, rm, negate_addend, negate_product) ==
    IF rm = RTOP \/ rm = RTON
    THEN LET rounded_up == smt_op(a, b, c, RTP, negate_addend,
                                  negate_product)
             rounded_down == smt_op(a, b, c, RTN, negate_addend,
                                    negate_product)
         IN IF rounded_up = f_nan THEN f_nan
            ELSE LET use_rounded_up ==
                         rounded_up % 2 = 1
                         \/ (rm = RTOP /\ f_is_zero(rounded_up)
                             /\ f_is_zero(rounded_down))
                 IN IF use_rounded_up THEN rounded_up ELSE rounded_down
    ELSE smt_op(a, b, c, rm, negate_addend, negate_product)

\* expected bits of the test: a NaN result is the quieted first NaN operand
\* among a, b, c, or the canonical quiet NaN
fma_expected(a, b, c, rm, negate_addend, negate_product) ==
    LET e_fp == fma_expected_fp(a, b, c, rm, negate_addend, negate_product)
        quiet_bit == Pow2(MWidth - 1)
        nan_exponent == exponent_inf_nan * Pow2(MWidth)
    IN IF e_fp = f_nan
       THEN IF f_is_nan(a) THEN BitOr(a, quiet_bit, Width)
            ELSE IF f_is_nan(b) THEN BitOr(b, quiet_bit, Width)
            ELSE IF f_is_nan(c) THEN BitOr(c, quiet_bit, Width)
            ELSE nan_exponent + quiet_bit
       ELSE e_fp

(***************************************************************************)
(* State.                                                                  *)
(*   send_i[k]  index of the next request sender k presents                *)
(*   slot[k]    "Idle" or "InFlight"                                       *)
(*   rs[k]      the request held by reservation station k, <<>> if none    *)
(*   r1,r2,r3   the output registers of scnorm, addalign and normpack,     *)
(*              each <<>> or a one-element sequence holding a token        *)
(*   do[k]      the results receiver k still expects, in order             *)
(*   recv[k]    what receiver k has been handed: <<out_muxid, out_z>>      *)
(*   last       the operation of the last step and what it returned        *)
(*   fin        the formal test's operands (a, b, rm, is_sub); in the      *)
(*              specifications of a single module, the module's input      *)
(*   cyc        clock cycles elapsed in the formal test                    *)
(*   out, out_full, ntrig   the formal test's output latch and the number  *)
(*              of output transfers seen; in the specifications of a       *)
(*              single module, out holds what the module returned          *)
(***************************************************************************)
VARIABLES send_i, slot, rs, r1, r2, r3, do, recv, last,
          fin, cyc, out, out_full, ntrig

vars == <<send_i, slot, rs, r1, r2, r3, do, recv, last,
          fin, cyc, out, out_full, ntrig>>

Rows == 0 .. (NumRows - 1)

(***************************************************************************)
(* FPADDBasePipe as three registered stages.  A token advances into the    *)
(* next register when that register is free after this tick; a token that  *)
(* cannot advance stays where it is.  inq is the token offered at the      *)
(* input (<<>> if none), q3 the content of the last register after the     *)
(* output side has taken what it takes this tick.                          *)
(***************************************************************************)
\* faulty variant of PipeAdvance: the last register accepts a token even
\* while it still holds an unconsumed result
PipeAdvance_Overwrite(inq, q1, q2, q3) ==
    LET mv2 == q2 # <<>>
        n3 == IF mv2 THEN <<FPNormToPack(q2[1])>> ELSE q3
        mv1 == q1 # <<>>
        n2 == IF mv1 THEN <<FPAddAlignSingleAdd(q1[1])>> ELSE <<>>
        mv0 == inq # <<>>
        n1 == IF mv0 THEN <<FPAddSpecialCasesDeNorm(inq[1])>> ELSE <<>>
    IN [r1 |-> n1, r2 |-> n2, r3 |-> n3, took |-> mv0,
        moved |-> mv0 \/ mv1 \/ mv2]

PipeAdvance(inq, q1, q2, q3) ==
    LET mv2 == q3 = <<>> /\ q2 # <<>>
        n3 == IF mv2 THEN <<FPNormToPack(q2[1])>> ELSE q3
        e2 == mv2 \/ q2 = <<>>
        mv1 == e2 /\ q1 # <<>>
        n2 == IF mv1 THEN <<FPAddAlignSingleAdd(q1[1])>>
              ELSE IF mv2 THEN <<>> ELSE q2
        e1 == mv1 \/ q1 = <<>>
        mv0 == e1 /\ inq # <<>>
        n1 == IF mv0 THEN <<FPAddSpecialCasesDeNorm(inq[1])>>
              ELSE IF mv1 THEN <<>> ELSE q1
    IN [r1 |-> n1, r2 |-> n2, r3 |-> n3, took |-> mv0,
        moved |-> mv0 \/ mv1 \/ mv2]

(***************************************************************************)
(* MuxInOut: the test harness around FPADDMuxInOut.                        *)
(***************************************************************************)
\* the operands sender muxid presents as its i-th request
vals(muxid, i) ==
    LET op1 == Pow2(MWidth) * (1 + i) + muxid
    IN [a |-> op1, b |-> IF i = 0 THEN 0 ELSE op1]

\* MuxInOut.__init__: do[muxid] holds fpop(op1, op2) for each request
fpop(v) == expected(v.a, v.b, RNE, FALSE)

do_init(muxid) == [i \in 1 .. TLen |-> fpop(vals(muxid, i - 1))]

\* faulty variant of data_i: the requests are presented last first
data_i_Reversed(muxid, i) ==
    [a |-> vals(muxid, TLen - 1 - i).a, b |-> vals(muxid, TLen - 1 - i).b,
     rm |-> RNE, is_sub |-> FALSE, muxid |-> muxid]

\* the request token: the harness sets a, b and muxid, rm and is_sub reset
data_i(muxid, i) ==
    [a |-> vals(muxid, i).a, b |-> vals(muxid, i).b, rm |-> RNE,
     is_sub |-> FALSE, muxid |-> muxid]

Init ==
    /\ send_i = [k \in Rows |-> 0]
    /\ slot = [k \in Rows |-> "Idle"]
    /\ rs = [k \in Rows |-> <<>>]
    /\ r1 = <<>>
    /\ r2 = <<>>
    /\ r3 = <<>>
    /\ do = [k \in Rows |-> do_init(k)]
    /\ recv = [k \in Rows |-> <<>>]
    /\ last = [op |-> "init", muxid |-> 0, ok |-> TRUE]
    /\ fin = <<>>
    /\ cyc = 0
    /\ out = 0
    /\ out_full = FALSE
    /\ ntrig = 0

(***************************************************************************)
(* submit(muxid, request), as MuxInOut.send drives it: the sender presents *)
(* its next request; a busy slot rejects it (ready_o low) and the sender   *)
(* presents the same request again, an idle slot admits it.                *)
(***************************************************************************)
\* faulty variant of p_ready_o: a station is ready whatever its slot holds
p_ready_o_Always(k) == slot[k] \in {"Idle", "InFlight"}

\* the scheduler's answer to a submit on station k: ready (admit) or not
p_ready_o(k) == slot[k] = "Idle"

SubmitAdmit(k) ==
    /\ send_i[k] < TLen
    /\ p_ready_o(k)
    /\ rs' = [rs EXCEPT ![k] = <<data_i(k, send_i[k])>>]
    /\ slot' = [slot EXCEPT ![k] = "InFlight"]
    /\ send_i' = [send_i EXCEPT ![k] = send_i[k] + 1]
    /\ last' = [op |-> "submit", muxid |-> k, ok |-> TRUE]
    /\ UNCHANGED <<r1, r2, r3, do, recv, fin, cyc, out, out_full, ntrig>>

\* faulty variant of SubmitReject: the rejected request is queued
SubmitReject_Queued(k) ==
    /\ send_i[k] < TLen
    /\ ~p_ready_o(k)
    /\ rs' = [rs EXCEPT ![k] = <<data_i(k, send_i[k])>>]
    /\ last' = [op |-> "submit", muxid |-> k, ok |-> FALSE]
    /\ UNCHANGED <<send_i, slot, r1, r2, r3, do, recv,
                   fin, cyc, out, out_full, ntrig>>

SubmitReject(k) ==
    /\ send_i[k] < TLen
    /\ ~p_ready_o(k)
    /\ last' = [op |-> "submit", muxid |-> k, ok |-> FALSE]
    /\ UNCHANGED <<send_i, slot, rs, r1, r2, r3, do, recv,
                   fin, cyc, out, out_full, ntrig>>

Submit(k) == SubmitAdmit(k) \/ SubmitReject(k)

\* the fan-in priority mux: the lowest-numbered station holding a request
Waiting == {k \in Rows : rs[k] # <<>>}

Pick == CHOOSE k \in Waiting : \A j \in Waiting : k <= j

(***************************************************************************)
(* One pipeline step: every token that can advance does; the picked        *)
(* station's request enters the first stage when that stage is free.       *)
(***************************************************************************)
Step ==
    \E adv \in {PipeAdvance(IF Waiting = {} THEN <<>> ELSE rs[Pick],
                            r1, r2, r3)} :
       /\ adv.moved
       /\ r1' = adv.r1
       /\ r2' = adv.r2
       /\ r3' = adv.r3
       /\ rs' = IF adv.took THEN [rs EXCEPT ![Pick] = <<>>] ELSE rs
       /\ last' = [op |-> "step", muxid |-> 0, ok |-> TRUE]
       /\ UNCHANGED <<send_i, slot, do, recv, fin, cyc, out, out_full, ntrig>>

(***************************************************************************)
(* Fan-out and MuxInOut.rcv: the completed token is offered on the output  *)
(* port its muxid names; receiver k takes it, records out_muxid and out_z, *)
(* and drops the head of do[k].  The slot returns to Idle.                 *)
(***************************************************************************)
n_valid_o(k) == r3 # <<>> /\ r3[1].muxid = k

\* faulty variant of Consume: the slot stays InFlight after its result left
Consume_StaysBusy(k) ==
    /\ n_valid_o(k)
    /\ do[k] # <<>>
    /\ recv' = [recv EXCEPT ![k] = Append(recv[k], <<r3[1].muxid, r3[1].z>>)]
    /\ do' = [do EXCEPT ![k] = Tail(do[k])]
    /\ r3' = <<>>
    /\ last' = [op |-> "consume", muxid |-> k, ok |-> TRUE]
    /\ UNCHANGED <<send_i, slot, rs, r1, r2, fin, cyc, out, out_full, ntrig>>

Consume(k) ==
    /\ n_valid_o(k)
    /\ do[k] # <<>>
    /\ recv' = [recv EXCEPT ![k] = Append(recv[k], <<r3[1].muxid, r3[1].z>>)]
    /\ do' = [do EXCEPT ![k] = Tail(do[k])]
    /\ r3' = <<>>
    /\ slot' = [slot EXCEPT ![k] = "Idle"]
    /\ last' = [op |-> "consume", muxid |-> k, ok |-> TRUE]
    /\ UNCHANGED <<send_i, rs, r1, r2, fin, cyc, out, out_full, ntrig>>

Next ==
    \/ \E k \in Rows : Submit(k)
    \/ Step
    \/ \E k \in Rows : Consume(k)

Spec == Init /\ [][Next]_vars

\* the clock always ticks: a token that can advance eventually does
SpecClock == Spec /\ WF_vars(Step)

(***************************************************************************)
(* TestFAddFSubFormal.tst_fadd_fsub_formal: FPADDBasePipe alone.  The      *)
(* operands, rounding mode and is_sub are valid in the first cycle only,   *)
(* the output side is always ready, and the output is latched into out.    *)
(***************************************************************************)
Depth == 5

InitFormal(is_sub) ==
    /\ \E a \in Values, b \in Values, rm \in FPRoundingMode :
          fin = <<[a |-> a, b |-> b, rm |-> rm, is_sub |-> is_sub,
                   muxid |-> 0]>>
    /\ send_i = [k \in Rows |-> 0]
    /\ slot = [k \in Rows |-> "Idle"]
    /\ rs = [k \in Rows |-> <<>>]
    /\ r1 = <<>>
    /\ r2 = <<>>
    /\ r3 = <<>>
    /\ do = [k \in Rows |-> <<>>]
    /\ recv = [k \in Rows |-> <<>>]
    /\ last = [op |-> "init", muxid |-> 0, ok |-> TRUE]
    /\ cyc = 0
    /\ out = 0
    /\ out_full = FALSE
    /\ ntrig = 0

InitAdd == InitFormal(FALSE)

InitSub == InitFormal(TRUE)

Tick ==
    \E adv \in {PipeAdvance(IF cyc = 0 THEN fin ELSE <<>>, r1, r2, <<>>)} :
    LET trigger == r3 # <<>>
    IN /\ cyc < Depth
       /\ cyc' = cyc + 1
       /\ out' = IF trigger THEN r3[1].z ELSE out
       /\ out_full' = (out_full \/ trigger)
       /\ ntrig' = IF trigger THEN ntrig + 1 ELSE ntrig
       /\ r1' = adv.r1
       /\ r2' = adv.r2
       /\ r3' = adv.r3
       /\ UNCHANGED <<send_i, slot, rs, do, recv, last, fin>>

NextFormal == Tick

SpecAdd == InitAdd /\ [][NextFormal]_vars

SpecSub == InitSub /\ [][NextFormal]_vars

(***************************************************************************)
(* The rounding decisions as pure functions.  fin holds the Overflow       *)
(* record drawn (guard, round_bit, sticky, m0, sign, rm); each action      *)
(* applies one function to it and records what it returned in its field of *)
(* out, which is <<>> until then.                                          *)
(***************************************************************************)
InitRound ==
    /\ \E guard \in {0, 1}, round_bit \in {0, 1}, sticky \in {0, 1},
          m0 \in {0, 1}, sign \in {0, 1}, rm \in FPRoundingMode :
          fin = <<[guard |-> guard, round_bit |-> round_bit,
                   sticky |-> sticky, m0 |-> m0, sign |-> sign, rm |-> rm]>>
    /\ send_i = [k \in Rows |-> 0]
    /\ slot = [k \in Rows |-> "Idle"]
    /\ rs = [k \in Rows |-> <<>>]
    /\ r1 = <<>>
    /\ r2 = <<>>
    /\ r3 = <<>>
    /\ do = [k \in Rows |-> <<>>]
    /\ recv = [k \in Rows |-> <<>>]
    /\ last = [op |-> "init", muxid |-> 0, ok |-> TRUE]
    /\ cyc = 0
    /\ out = [roundz |-> <<>>, overflow |-> <<>>, underflow |-> <<>>,
              zero |-> <<>>]
    /\ out_full = FALSE
    /\ ntrig = 0

ApplyRoundz ==
    /\ out.roundz = <<>>
    /\ out' = [out EXCEPT !.roundz = <<roundz(fin[1])>>]
    /\ UNCHANGED <<send_i, slot, rs, r1, r2, r3, do, recv, last, fin, cyc,
                   out_full, ntrig>>

ApplyOverflow ==
    /\ out.overflow = <<>>
    /\ out' = [out EXCEPT !.overflow =
                    <<overflow_rounds_to_inf(fin[1].rm, fin[1].sign)>>]
    /\ UNCHANGED <<send_i, slot, rs, r1, r2, r3, do, recv, last, fin, cyc,
                   out_full, ntrig>>

ApplyUnderflow ==
    /\ out.underflow = <<>>
    /\ out' = [out EXCEPT !.underflow =
                    <<underflow_rounds_to_zero(fin[1].rm, fin[1].sign)>>]
    /\ UNCHANGED <<send_i, slot, rs, r1, r2, r3, do, recv, last, fin, cyc,
                   out_full, ntrig>>

ApplyZeroSign ==
    /\ out.zero = <<>>
    /\ out' = [out EXCEPT !.zero = <<zero_sign(fin[1].rm)>>]
    /\ UNCHANGED <<send_i, slot, rs, r1, r2, r3, do, recv, last, fin, cyc,
                   out_full, ntrig>>

NextRound ==
    \/ ApplyRoundz
    \/ ApplyOverflow
    \/ ApplyUnderflow
    \/ ApplyZeroSign

SpecRound == InitRound /\ [][NextRound]_vars

(***************************************************************************)
(* Round, corrections and pack on an arbitrary token.  fin holds the token *)
(* drawn: the number z the compute path carries (sign, exponent, mantissa  *)
(* with its implicit bit), the round-up decision, the rounding mode and    *)
(* the bypass flag with its bit pattern (0 when the token is no bypass).   *)
(* out records the token pack was handed (i) and the bits it emitted (z).  *)
(***************************************************************************)
\* the exponents drawn: one beyond the subnormal and the infinity exponent
ExpRange == (N127 - 1) .. (P128 + 1)

InitPack ==
    /\ \E s \in {0, 1}, e \in ExpRange, m \in 0 .. (Pow2(m_width_z) - 1),
          rz \in BOOLEAN, rm \in FPRoundingMode, out_do_z \in BOOLEAN :
          \E oz \in IF out_do_z THEN Values ELSE {0} :
              fin = <<[z |-> [s |-> s, e |-> e, m |-> m], roundz |-> rz,
                       out_do_z |-> out_do_z, oz |-> oz, muxid |-> 0,
                       rm |-> rm]>>
    /\ send_i = [k \in Rows |-> 0]
    /\ slot = [k \in Rows |-> "Idle"]
    /\ rs = [k \in Rows |-> <<>>]
    /\ r1 = <<>>
    /\ r2 = <<>>
    /\ r3 = <<>>
    /\ do = [k \in Rows |-> <<>>]
    /\ recv = [k \in Rows |-> <<>>]
    /\ last = [op |-> "init", muxid |-> 0, ok |-> TRUE]
    /\ cyc = 0
    /\ out = <<>>
    /\ out_full = FALSE
    /\ ntrig = 0

ApplyRoundPack ==
    /\ ~out_full
    /\ \E c \in {FPCorrectionsMod(r) : r \in {FPRoundMod(fin[1])}} :
          out' = [i |-> c, z |-> FPPackMod(c).z]
    /\ out_full' = TRUE
    /\ UNCHANGED <<send_i, slot, rs, r1, r2, r3, do, recv, last, fin, cyc,
                   ntrig>>

NextPack == ApplyRoundPack

SpecPack == InitPack /\ [][NextPack]_vars

(***************************************************************************)
(* Properties of the reservation-station scheduler.                        *)
(***************************************************************************)
\* the tokens in flight that carry muxid k
TokensOf(k) ==
    B2N(rs[k] # <<>>)
    + B2N(r1 # <<>> /\ r1[1].muxid = k)
    + B2N(r2 # <<>> /\ r2[1].muxid = k)
    + B2N(r3 # <<>> /\ r3[1].muxid = k)

\* the result the pipeline computes for the i-th request of sender k
ResultOf(k, i) == FPADDBasePipe(data_i(k, i)).z

\* C1: in every reachable state, for each muxid at most one request is in
\* flight (admitted but not yet completed).
C1_AtMostOneInFlight ==
    \A k \in Rows :
        /\ TokensOf(k) <= 1
        /\ send_i[k] - Len(recv[k]) \in {0, 1}

\* a submit was rejected on a busy muxid while another muxid is in flight too
C1_Witness ==
    \E k \in Rows, j \in Rows :
        /\ k # j
        /\ TokensOf(k) = 1
        /\ TokensOf(j) = 1
        /\ last = [op |-> "submit", muxid |-> k, ok |-> FALSE]

\* C2: every response delivered on output port k carries muxid k and is the
\* result computed from the operands of a request admitted on input port k.
C2_RoutedToOwnPort ==
    \A k \in Rows : \A j \in 1 .. Len(recv[k]) :
        /\ recv[k][j][1] = k
        /\ \E i \in 0 .. (send_i[k] - 1) : recv[k][j][2] = ResultOf(k, i)

\* the last muxid got a response before muxid 0 got any, both were admitted
C2_Witness ==
    /\ Len(recv[NumRows - 1]) >= 1
    /\ recv[0] = <<>>
    /\ send_i[0] >= 1

\* C3: a submit on a slot that is InFlight returns rejected and leaves the
\* slot's status, every in-flight token and every pending result unchanged;
\* the rejected request is not queued and never produces a response (a port
\* never receives more responses than it had requests admitted).
C3_RejectLeavesStateUnchanged ==
    /\ [][\A k \in Rows :
            (slot[k] = "InFlight" /\ last'.op = "submit" /\ last'.muxid = k)
            => /\ last'.ok = FALSE
               /\ UNCHANGED <<send_i, slot, rs, r1, r2, r3, do, recv>>]_vars
    /\ [](\A k \in Rows : Len(recv[k]) + TokensOf(k) = send_i[k])

\* a submit was just rejected while the result of that muxid is pending
C3_Witness ==
    \E k \in Rows :
        /\ last = [op |-> "submit", muxid |-> k, ok |-> FALSE]
        /\ n_valid_o(k)

\* a request admitted on muxid k and not yet answered gets its response
Delivered(k) ==
    (Len(recv[k]) < send_i[k]) ~> (Len(recv[k]) = send_i[k])

C5_SlotCycle ==
    \A k \in Rows :
        /\ slot[k] = "Idle" <=> Len(recv[k]) = send_i[k]
        /\ slot[k] = "InFlight" <=> Len(recv[k]) + 1 = send_i[k]
        /\ (slot[k] = "Idle" /\ send_i[k] < TLen) => ENABLED SubmitAdmit(k)

\* a response was just consumed on a muxid that has more requests to send
C5_Witness ==
    \E k \in Rows :
        /\ last = [op |-> "consume", muxid |-> k, ok |-> TRUE]
        /\ slot[k] = "Idle"
        /\ send_i[k] >= 1
        /\ send_i[k] < TLen

\* C6: for each muxid the i-th response is the result of the i-th request
\* admitted on that muxid, however the other muxids interleave.
C6_PerMuxidOrder ==
    \A k \in Rows : \A j \in 1 .. Len(recv[k]) :
        recv[k][j][2] = do_init(k)[j]

\* two responses on the last muxid while muxid 0 has had one
C6_Witness ==
    /\ Len(recv[NumRows - 1]) = 2
    /\ Len(recv[0]) = 1

\* C7: while a completed result is not consumed it stays pending unchanged
\* and its slot stays InFlight, whatever other steps are taken.
C7_StalledResultKept ==
    [][\A k \in Rows :
         (n_valid_o(k) /\ Len(recv'[k]) = Len(recv[k]))
         => (r3' = r3 /\ slot'[k] = "InFlight" /\ slot[k] = "InFlight")]_vars

\* a result is pending in the last stage with tokens stalled behind it
C7_Witness ==
    /\ r3 # <<>>
    /\ r2 # <<>>
    /\ last.op = "step"

(***************************************************************************)
(* Properties of the add pipeline under the formal test.                   *)
(***************************************************************************)
\* C8: for every pair of operand bit patterns and each rounding mode the
\* packed result of the add pipeline is bit-identical to the reference sum
\* a+b rounded in that mode (round-to-odd: the odd-mantissa choice between
\* the RTP and RTN results), a NaN result being the quieted first NaN operand
\* or else the canonical quiet NaN.
C8_AddMatchesReference ==
    out_full =>
        out = expected(fin[1].a, fin[1].b, fin[1].rm, FALSE)

\* an inexact sum came out under RTOP and is the round-toward-positive one
C8_Witness ==
    /\ out_full
    /\ fin[1].rm = RTOP
    /\ ~f_is_nan(out)
    /\ out = expected(fin[1].a, fin[1].b, RTP, FALSE)
    /\ out # expected(fin[1].a, fin[1].b, RTN, FALSE)

\* C9: with is_sub set the result of the add pipeline is bit-identical to
\* the reference difference a - b rounded in the request's mode (a NaN
\* operand B is returned quieted with its own sign); with is_sub clear it
\* is the sum a + b.
C9_SubMatchesReference ==
    out_full =>
        out = expected(fin[1].a, fin[1].b, fin[1].rm, fin[1].is_sub)

\* C10: if either operand is NaN the result is operand A with its quiet bit
\* set when A is NaN, and otherwise operand B with its quiet bit set.
C10_NaNOperandQuieted ==
    (out_full /\ (f_is_nan(fin[1].a) \/ f_is_nan(fin[1].b))) =>
        out = IF f_is_nan(fin[1].a)
              THEN BitOr(fin[1].a, Pow2(MWidth - 1), Width)
              ELSE BitOr(fin[1].b, Pow2(MWidth - 1), Width)

\* both operands are NaN, A is signalling and negative, B is a different
\* NaN, and A came out with only its quiet bit changed
C10_Witness ==
    /\ out_full
    /\ f_is_nan(fin[1].a)
    /\ f_is_nan(fin[1].b)
    /\ fin[1].a # fin[1].b
    /\ f_sign(fin[1].a) = 1
    /\ Bit(fin[1].a, MWidth - 1) = 0
    /\ out = fin[1].a + Pow2(MWidth - 1)

\* C11: for every rounding mode, adding two infinities of opposite sign,
\* in either operand order, yields the canonical quiet NaN (sign 0, exponent
\* field all ones, only the top mantissa bit set).
C11_InfMinusInfIsNaN ==
    (/\ out_full
     /\ f_is_inf(fin[1].a)
     /\ f_is_inf(fin[1].b)
     /\ f_sign(fin[1].a) # f_sign(fin[1].b)) =>
        out = exponent_inf_nan * Pow2(MWidth) + Pow2(MWidth - 1)

\* (-Inf) + (+Inf) came out under round-toward-negative
C11_Witness ==
    /\ out_full
    /\ f_is_inf(fin[1].a)
    /\ f_is_inf(fin[1].b)
    /\ f_sign(fin[1].a) = 1
    /\ f_sign(fin[1].b) = 0
    /\ fin[1].rm = RTN

\* C12: for every rounding mode (+0)+(+0) is +0, (-0)+(-0) is -0, and
\* (+0)+(-0) and (-0)+(+0) are a zero whose sign bit is negative only for
\* RTN and RTON.
C12_ZeroSigns ==
    (out_full /\ f_is_zero(fin[1].a) /\ f_is_zero(fin[1].b)) =>
        out = IF f_sign(fin[1].a) = f_sign(fin[1].b) THEN fin[1].a
              ELSE IF fin[1].rm \in {RTN, RTON} THEN Pow2(Width - 1)
              ELSE 0

\* (+0) + (-0) came out as -0 under RTON
C12_Witness ==
    /\ out_full
    /\ fin[1].a = 0
    /\ fin[1].b = Pow2(Width - 1)
    /\ fin[1].rm = RTON
    /\ out = Pow2(Width - 1)

\* C13: for every finite non-zero a, normal or subnormal, and every rounding
\* mode, a + (-a) is an exact zero whose sign bit is negative only for RTN
\* and RTON.
C13_CancellationIsZero ==
    (/\ out_full
     /\ f_exp(fin[1].a) # exponent_inf_nan
     /\ ~f_is_zero(fin[1].a)
     /\ fin[1].b = f_neg(fin[1].a)) =>
        out = IF fin[1].rm \in {RTN, RTON} THEN Pow2(Width - 1) ELSE 0

\* a negative subnormal a plus -a came out as -0 under RTN
C13_Witness ==
    /\ out_full
    /\ f_exp(fin[1].a) = 0
    /\ f_man(fin[1].a) # 0
    /\ f_sign(fin[1].a) = 1
    /\ fin[1].b = f_neg(fin[1].a)
    /\ fin[1].rm = RTN
    /\ out = Pow2(Width - 1)

(***************************************************************************)
(* Properties of the rounding decisions.                                   *)
(***************************************************************************)
\* C14: for every guard, round_bit, sticky, m0 and sign the round-up decision
\* selected by the rounding mode is: RNE guard and (round_bit or sticky or
\* m0); RNA guard; RTN sign and (guard or round_bit or sticky); RTP not sign
\* and (guard or round_bit or sticky); RTOP and RTON not m0 and (guard or
\* round_bit or sticky); RTZ never.
C14_RoundzTable ==
    LET of == fin[1]
        g == of.guard = 1
        inexact == of.guard = 1 \/ of.round_bit = 1 \/ of.sticky = 1
    IN out.roundz # <<>> =>
         (out.roundz[1] <=>
            CASE of.rm = RNE -> g /\ (of.round_bit = 1 \/ of.sticky = 1
                                      \/ of.m0 = 1)
              [] of.rm = RNA -> g
              [] of.rm = RTN -> of.sign = 1 /\ inexact
              [] of.rm = RTP -> of.sign = 0 /\ inexact
              [] of.rm \in {RTOP, RTON} -> of.m0 = 0 /\ inexact
              [] of.rm = RTZ -> FALSE)

\* an exact tie with an even mantissa under RNE was decided: no round-up
C14_Witness ==
    /\ out.roundz = <<FALSE>>
    /\ fin[1].rm = RNE
    /\ fin[1].guard = 1
    /\ fin[1].round_bit = 0
    /\ fin[1].sticky = 0
    /\ fin[1].m0 = 0

\* C15: for each rounding mode and both signs overflow_rounds_to_inf,
\* underflow_rounds_to_zero and zero_sign return: RNE (true, true,
\* positive), RTZ (false, true, positive), RTP (not sign, sign, positive),
\* RTN (sign, not sign, negative), RNA (true, true, positive), RTOP (false,
\* false, positive), RTON (false, false, negative).
C15_ModeDecisionTable ==
    LET rm == fin[1].rm
        neg == fin[1].sign = 1
        table == CASE rm = RNE -> <<TRUE, TRUE, 0>>
                   [] rm = RTZ -> <<FALSE, TRUE, 0>>
                   [] rm = RTP -> <<~neg, neg, 0>>
                   [] rm = RTN -> <<neg, ~neg, 1>>
                   [] rm = RNA -> <<TRUE, TRUE, 0>>
                   [] rm = RTOP -> <<FALSE, FALSE, 0>>
                   [] rm = RTON -> <<FALSE, FALSE, 1>>
    IN /\ out.overflow # <<>> => (out.overflow[1] <=> table[1])
       /\ out.underflow # <<>> => (out.underflow[1] <=> table[2])
       /\ out.zero # <<>> => out.zero[1] = table[3]

\* all three decisions were taken for a negative sign under RTN
C15_Witness ==
    /\ fin[1].rm = RTN
    /\ fin[1].sign = 1
    /\ out.overflow = <<TRUE>>
    /\ out.underflow = <<FALSE>>
    /\ out.zero = <<1>>

(***************************************************************************)
(* Properties of round, corrections and pack.                              *)
(***************************************************************************)
\* C16: for a token that is no bypass, if the rounded exponent exceeds the
\* maximum normal exponent pack emits infinity with the result's sign when
\* the mode's overflow policy for that sign is inf (RNE, RNA, RTP for a
\* positive and RTN for a negative result) and otherwise the largest finite
\* value with that sign; if it does not, pack emits exactly
\* sign | exponent+bias | mantissa.
C16_PackOverflowPolicy ==
    (out_full /\ ~out.i.out_do_z) =>
        LET c == out.i
            sign == c.z.s * Pow2(Width - 1)
            bias == Pow2(EWidth - 1) - 1
            to_inf == \/ c.rm \in {RNE, RNA}
                      \/ (c.rm = RTP /\ c.z.s = 0)
                      \/ (c.rm = RTN /\ c.z.s = 1)
        IN out.z =
             IF c.z.e > bias
             THEN IF to_inf
                  THEN sign + (Pow2(EWidth) - 1) * Pow2(MWidth)
                  ELSE sign + (Pow2(EWidth) - 2) * Pow2(MWidth)
                            + (Pow2(MWidth) - 1)
             ELSE sign + ((c.z.e + bias) % Pow2(EWidth)) * Pow2(MWidth)
                       + (c.z.m % Pow2(MWidth))

\* rounding up carried the exponent past the maximum under RTZ: a negative
\* result was packed as the largest finite negative value
C16_Witness ==
    /\ out_full
    /\ ~out.i.out_do_z
    /\ fin[1].z.e = P127
    /\ out.i.z.e = P128
    /\ fin[1].rm = RTZ
    /\ fin[1].z.s = 1
    /\ out.z = Pow2(Width) - Pow2(MWidth) - 1

\* C17: if the token is a bypass with bit pattern oz, the packed output
\* equals oz bit for bit, whatever sign, exponent, mantissa, round-up
\* decision and rounding mode the compute path carries.
C17_BypassForwarded ==
    (out_full /\ fin[1].out_do_z) => out.z = fin[1].oz

\* a bypass token whose compute path overflowed came out as its oz, which
\* is neither the infinity nor the largest finite value
C17_Witness ==
    /\ out_full
    /\ fin[1].out_do_z
    /\ out.i.z.e > P127
    /\ fin[1].roundz
    /\ out.z = fin[1].oz
    /\ f_exp(out.z) < exponent_inf_nan - 1

(***************************************************************************)
(* Re-packing a packed value: the bits v are decoded, split by add stage 1 *)
(* into mantissa, guard, round and sticky (the three extra bits of a       *)
(* decoded mantissa are zero), and handed to normalise, round, corrections *)
(* and pack.  repack takes the operand as the denormalise stage leaves it, *)
(* repack_raw takes it as FPNumDecode.decode leaves it.                    *)
(***************************************************************************)
stage1_of(a, rm) ==
    FPAddStage1Mod([z |-> [s |-> a.s, e |-> a.e, m |-> 0], tot |-> a.m,
                    out_do_z |-> FALSE, oz |-> 0, muxid |-> 0, rm |-> rm])

repack(v, rm) ==
    CHOOSE z \in {FPNormToPack(i).z :
                    i \in {stage1_of(a, rm) :
                             a \in {denormalise(decode(v))}}} : TRUE

repack_raw(v, rm) ==
    CHOOSE z \in {FPNormToPack(i).z :
                    i \in {stage1_of(a, rm) : a \in {decode(v)}}} : TRUE

\* a packed value that is neither an infinity nor a NaN
is_finite(v) == ~exp_128(decode(v))

InitRepack ==
    /\ \E v \in Values, rm \in FPRoundingMode :
          fin = <<[v |-> v, rm |-> rm]>>
    /\ send_i = [k \in Rows |-> 0]
    /\ slot = [k \in Rows |-> "Idle"]
    /\ rs = [k \in Rows |-> <<>>]
    /\ r1 = <<>>
    /\ r2 = <<>>
    /\ r3 = <<>>
    /\ do = [k \in Rows |-> <<>>]
    /\ recv = [k \in Rows |-> <<>>]
    /\ last = [op |-> "init", muxid |-> 0, ok |-> TRUE]
    /\ cyc = 0
    /\ out = [once |-> <<>>, twice |-> <<>>, raw |-> <<>>]
    /\ out_full = FALSE
    /\ ntrig = 0

RepackOnce ==
    /\ out.once = <<>>
    /\ out' = [out EXCEPT !.once = <<repack(fin[1].v, fin[1].rm)>>]
    /\ UNCHANGED <<send_i, slot, rs, r1, r2, r3, do, recv, last, fin, cyc,
                   out_full, ntrig>>

RepackTwice ==
    /\ out.once # <<>>
    /\ out.twice = <<>>
    /\ out' = [out EXCEPT !.twice = <<repack(out.once[1], fin[1].rm)>>]
    /\ UNCHANGED <<send_i, slot, rs, r1, r2, r3, do, recv, last, fin, cyc,
                   out_full, ntrig>>

RepackRaw ==
    /\ out.raw = <<>>
    /\ out' = [out EXCEPT !.raw = <<repack_raw(fin[1].v, fin[1].rm)>>]
    /\ UNCHANGED <<send_i, slot, rs, r1, r2, r3, do, recv, last, fin, cyc,
                   out_full, ntrig>>

NextRepack == RepackOnce \/ RepackTwice \/ RepackRaw

SpecRepack == InitRepack /\ [][NextRepack]_vars

\* C18 (as amended): for every packed finite v and every rounding mode,
\* decoding v, denormalising it (implicit bit set for a normal value, the
\* exponent raised to the minimum for a subnormal one) and applying
\* normalise, round, corrections and pack with guard, round and sticky zero
\* returns v; applying the same to that result returns it again.
C18_RepackIsIdentity ==
    is_finite(fin[1].v) =>
        /\ (out.once # <<>> => out.once[1] = fin[1].v)
        /\ (out.twice # <<>> => out.twice[1] = out.once[1])

\* a finite value with a non-zero fraction has been re-packed twice
C18_Witness ==
    /\ out.once # <<>>
    /\ out.twice # <<>>
    /\ is_finite(fin[1].v)
    /\ fin[1].v % Pow2(MWidth) # 0
    /\ fin[1].rm = RTP

\* C18 (as stated): the value decoded by FPNumDecode.decode alone, handed to
\* normalise, round, corrections and pack, comes back as v.
C18_Original ==
    (is_finite(fin[1].v) /\ out.raw # <<>>) => out.raw[1] = fin[1].v

(***************************************************************************)
(* The FMA formal test as a function of its operands: fin holds the bit    *)
(* patterns a, b, c, the rounding mode and the two negate flags; out holds *)
(* the bypass decision of the special-case stage (sc) and the bits the     *)
(* pipeline delivers (z).                                                  *)
(***************************************************************************)
\* the multiplicand a and the addend b range over every bit pattern; the
\* multiplicand c over a zero, the smallest subnormal, a normal value with
\* an odd mantissa, the largest normal value, an infinity and a signalling
\* NaN, of either sign
COperands ==
    {create(0, N127, 0), create(0, N127, 1), create(0, 0, 1),
     create(1, P127, Pow2(MWidth) - 1), create(0, P128, 0),
     create(1, P128, 1)}

InitFMA ==
    /\ \E a \in Values, b \in Values, c \in COperands,
          rm \in FPRoundingMode, na \in {0, 1}, np \in {0, 1} :
          fin = <<[a |-> a, b |-> b, c |-> c, rm |-> rm,
                   negate_addend |-> na, negate_product |-> np,
                   muxid |-> 0]>>
    /\ send_i = [k \in Rows |-> 0]
    /\ slot = [k \in Rows |-> "Idle"]
    /\ rs = [k \in Rows |-> <<>>]
    /\ r1 = <<>>
    /\ r2 = <<>>
    /\ r3 = <<>>
    /\ do = [k \in Rows |-> <<>>]
    /\ recv = [k \in Rows |-> <<>>]
    /\ last = [op |-> "init", muxid |-> 0, ok |-> TRUE]
    /\ cyc = 0
    /\ out = <<>>
    /\ out_full = FALSE
    /\ ntrig = 0

\* FPFMABasePipe: sc_denorm, main, normpack connected in this order
ApplyFMA ==
    /\ ~out_full
    /\ \E sc \in {FPFMASpecialCasesDeNorm(fin[1])} :
          out' = [bypassed_z |-> sc.bypassed_z, do_bypass |-> sc.do_bypass,
                  z |-> FPFMANormToPack(FPFMAMain(sc)).z]
    /\ out_full' = TRUE
    /\ UNCHANGED <<send_i, slot, rs, r1, r2, r3, do, recv, last, fin, cyc,
                   ntrig>>

NextFMA == ApplyFMA

SpecFMA == InitFMA /\ [][NextFMA]_vars

InitFMASpecialCases ==
    /\ \E a \in Values, b \in Values,
          c \in COperands \cup {f_neg(x) : x \in COperands},
          rm \in {RNE}, na \in {0, 1}, np \in {0, 1} :
          fin = <<[a |-> a, b |-> b, c |-> c, rm |-> rm,
                   negate_addend |-> na, negate_product |-> np,
                   muxid |-> 0]>>
    /\ send_i = [k \in Rows |-> 0]
    /\ slot = [k \in Rows |-> "Idle"]
    /\ rs = [k \in Rows |-> <<>>]
    /\ r1 = <<>>
    /\ r2 = <<>>
    /\ r3 = <<>>
    /\ do = [k \in Rows |-> <<>>]
    /\ recv = [k \in Rows |-> <<>>]
    /\ last = [op |-> "init", muxid |-> 0, ok |-> TRUE]
    /\ cyc = 0
    /\ out = <<>>
    /\ out_full = FALSE
    /\ ntrig = 0

ApplyFMASpecialCases ==
    /\ ~out_full
    /\ \E sc \in {FPFMASpecialCasesDeNorm(fin[1])} :
          out' = [bypassed_z |-> sc.bypassed_z, do_bypass |-> sc.do_bypass]
    /\ out_full' = TRUE
    /\ UNCHANGED <<send_i, slot, rs, r1, r2, r3, do, recv, last, fin, cyc,
                   ntrig>>

NextFMASpecialCases == ApplyFMASpecialCases

SpecFMASpecialCases == InitFMASpecialCases /\ [][NextFMASpecialCases]_vars

\* C20: the FMA special-case stage decides, first match winning: a NaN ->
\* quieted a; b NaN -> quieted b; c NaN -> quieted c; infinity times zero ->
\* canonical quiet NaN; infinite product and infinite addend of opposite
\* effective signs -> canonical quiet NaN; infinite product -> infinity with
\* the product sign; infinite addend -> infinity with the addend's effective
\* sign; zero product and zero addend of equal effective signs -> zero with
\* that sign; zero product and non-zero addend -> the addend's bits with the
\* sign flipped when negate_addend is set; do_bypass is set in exactly these
\* cases.
C20_SpecialCasePriority ==
    out_full =>
        LET a == fin[1].a
            b == fin[1].b
            c == fin[1].c
            ps == (f_sign(a) + f_sign(c) + fin[1].negate_product) % 2
            bs == (f_sign(b) + fin[1].negate_addend) % 2
            signbit == Pow2(Width - 1)
            infbits == exponent_inf_nan * Pow2(MWidth)
            canonical == infbits + Pow2(MWidth - 1)
            no_nan == ~f_is_nan(a) /\ ~f_is_nan(b) /\ ~f_is_nan(c)
            prod_inf == f_is_inf(a) \/ f_is_inf(c)
            prod_zero == f_is_zero(a) \/ f_is_zero(c)
            nan_a == f_is_nan(a)
            nan_b == ~f_is_nan(a) /\ f_is_nan(b)
            nan_c == ~f_is_nan(a) /\ ~f_is_nan(b) /\ f_is_nan(c)
            inf_times_zero == no_nan /\ prod_inf /\ prod_zero
            inf_minus_inf == no_nan /\ prod_inf /\ ~prod_zero
                             /\ f_is_inf(b) /\ ps # bs
            inf_plus_x == no_nan /\ prod_inf /\ ~prod_zero
                          /\ ~(f_is_inf(b) /\ ps # bs)
            x_plus_inf == no_nan /\ ~prod_inf /\ f_is_inf(b)
            zero_plus_zero == no_nan /\ ~prod_inf /\ prod_zero
                              /\ f_is_zero(b) /\ ps = bs
            zero_plus_x == no_nan /\ ~prod_inf /\ ~f_is_inf(b) /\ prod_zero
                           /\ ~f_is_zero(b)
        IN /\ nan_a => out.bypassed_z = BitOr(a, Pow2(MWidth - 1), Width)
           /\ nan_b => out.bypassed_z = BitOr(b, Pow2(MWidth - 1), Width)
           /\ nan_c => out.bypassed_z = BitOr(c, Pow2(MWidth - 1), Width)
           /\ inf_times_zero => out.bypassed_z = canonical
           /\ inf_minus_inf => out.bypassed_z = canonical
           /\ inf_plus_x => out.bypassed_z = ps * signbit + infbits
           /\ x_plus_inf => out.bypassed_z = bs * signbit + infbits
           /\ zero_plus_zero => out.bypassed_z = ps * signbit
           /\ zero_plus_x =>
                  out.bypassed_z = (IF fin[1].negate_addend = 1
                                    THEN f_neg(b) ELSE b)
           /\ out.do_bypass <=>
                  (nan_a \/ nan_b \/ nan_c \/ inf_times_zero
                   \/ inf_minus_inf \/ inf_plus_x \/ x_plus_inf
                   \/ zero_plus_zero \/ zero_plus_x)

\* b is a signalling NaN behind a finite a, and c is a NaN too: the stage
\* bypasses with b quieted
C20_Witness ==
    /\ out_full
    /\ ~f_is_nan(fin[1].a)
    /\ f_is_nan(fin[1].b)
    /\ Bit(fin[1].b, MWidth - 1) = 0
    /\ f_is_nan(fin[1].c)
    /\ out.do_bypass
    /\ out.bypassed_z = fin[1].b + Pow2(MWidth - 1)

(***************************************************************************)
(* The sticky right shifter on its own.  A state holds one shifter         *)
(* instance in fin: its width, the width s_max of its diff port (the       *)
(* constructor's default bits_for(width - 1), or one bit more, as the FMA  *)
(* special-case stage passes a wider one), and the values on inp and diff. *)
(* The single action records the value on the m port in out.               *)
(***************************************************************************)
ShiftWidths == 2 .. Width

InitShift ==
    /\ \E width \in ShiftWidths :
          \E s_max \in {bits_for(width - 1), bits_for(width - 1) + 1} :
              \E inp \in 0 .. (Pow2(width) - 1),
                 diff \in 0 .. (Pow2(s_max) - 1) :
                  fin = <<[width |-> width, s_max |-> s_max, inp |-> inp,
                           diff |-> diff]>>
    /\ send_i = [k \in Rows |-> 0]
    /\ slot = [k \in Rows |-> "Idle"]
    /\ rs = [k \in Rows |-> <<>>]
    /\ r1 = <<>>
    /\ r2 = <<>>
    /\ r3 = <<>>
    /\ do = [k \in Rows |-> <<>>]
    /\ recv = [k \in Rows |-> <<>>]
    /\ last = [op |-> "init", muxid |-> 0, ok |-> TRUE]
    /\ cyc = 0
    /\ ntrig = 0
    /\ out = 0
    /\ out_full = FALSE

ApplyShift ==
    /\ ~out_full
    /\ out' = MultiShiftRMerge(fin[1].width, fin[1].inp, fin[1].diff)
    /\ out_full' = TRUE
    /\ UNCHANGED <<send_i, slot, rs, r1, r2, r3, do, recv, last, fin, cyc,
                   ntrig>>

NextShift == ApplyShift

SpecShift == InitShift /\ [][NextShift]_vars

\* TestMultiShift.check_case_merge: the value the test expects on x for
\* input a shifted by b
check_case_merge(width, a, b) ==
    LET x == (a \div Pow2(b)) % Pow2(width)
    IN IF a % Pow2(b + 1) # 0 THEN BitOr(x, 1, width) ELSE x

\* C21: for a shift amount diff in 0..width-1 the shifter outputs inp >> diff
\* with bit 0 also set iff one of inp's bits 0..diff is set; for every diff
\* >= width-1 the output is the sticky bit alone, 1 iff inp is non-zero.
C21_ShiftMergesSticky ==
    out_full =>
        /\ fin[1].diff <= fin[1].width - 1 =>
               out = check_case_merge(fin[1].width, fin[1].inp, fin[1].diff)
        /\ fin[1].diff >= fin[1].width - 1 => out = B2N(fin[1].inp # 0)

\* 9 shifted by 2 in a 4-bit shifter: bit 2 of the input is clear, the 1
\* shifted out of bit 0 lands in the sticky bit, and a shift beyond the
\* width is not involved
C21_Witness ==
    /\ out_full
    /\ fin[1].width = 4
    /\ fin[1].inp = 9
    /\ fin[1].diff = 2
    /\ out = 3

(***************************************************************************)
(* FPFormat's classification predicates on a packed value.  A state holds  *)
(* one bit pattern x in fin; the single action records what is_nan,        *)
(* is_quiet_nan and is_nan_signaling return for it.                        *)
(*                                                                         *)
(* is_nan_signaling is written                                             *)
(*     (exponent == e_max) & (mantissa != 0) & (mantissa & highbit) == 0   *)
(* and Python's & binds tighter than ==, so the value returned is          *)
(*     ((exponent == e_max) & (mantissa != 0) & (mantissa & highbit)) == 0 *)
(* where the two one-bit comparisons are ANDed bitwise with the masked     *)
(* mantissa.                                                               *)
(***************************************************************************)
mantissa_mask == Pow2(MWidth) - 1

get_exponent(x) == f_exp(x) - exponent_bias

get_mantissa_field(x) == BitAnd(x, mantissa_mask, Width)

FPFormat_e_max == exponent_inf_nan - exponent_bias

FPFormat_is_nan(x) ==
    get_exponent(x) = FPFormat_e_max /\ get_mantissa_field(x) # 0

is_quiet_nan(x) ==
    LET highbit == Pow2(MWidth - 1)
    IN /\ get_exponent(x) = FPFormat_e_max
       /\ get_mantissa_field(x) # 0
       /\ BitAnd(get_mantissa_field(x), highbit, Width) # 0

is_nan_signaling(x) ==
    LET highbit == Pow2(MWidth - 1)
        lhs == BitAnd(BitAnd(B2N(get_exponent(x) = FPFormat_e_max),
                             B2N(get_mantissa_field(x) # 0), 1),
                      BitAnd(get_mantissa_field(x), highbit, Width), Width)
    IN lhs = 0

InitClassify ==
    /\ \E x \in Values : fin = <<[x |-> x]>>
    /\ send_i = [k \in Rows |-> 0]
    /\ slot = [k \in Rows |-> "Idle"]
    /\ rs = [k \in Rows |-> <<>>]
    /\ r1 = <<>>
    /\ r2 = <<>>
    /\ r3 = <<>>
    /\ do = [k \in Rows |-> <<>>]
    /\ recv = [k \in Rows |-> <<>>]
    /\ last = [op |-> "init", muxid |-> 0, ok |-> TRUE]
    /\ cyc = 0
    /\ ntrig = 0
    /\ out = <<>>
    /\ out_full = FALSE

ApplyClassify ==
    /\ ~out_full
    /\ out' = [is_nan |-> FPFormat_is_nan(fin[1].x),
               is_quiet_nan |-> is_quiet_nan(fin[1].x),
               is_nan_signaling |-> is_nan_signaling(fin[1].x)]
    /\ out_full' = TRUE
    /\ UNCHANGED <<send_i, slot, rs, r1, r2, r3, do, recv, last, fin, cyc,
                   ntrig>>

NextClassify == ApplyClassify

SpecClassify == InitClassify /\ [][NextClassify]_vars

\* C22: is_nan_signaling(x) is true exactly when x has an all-ones exponent
\* field, a non-zero mantissa field and a clear top mantissa bit; hence
\* is_nan(x) holds iff exactly one of is_quiet_nan(x) and
\* is_nan_signaling(x) holds.
C22_SignalingNanClassified ==
    out_full =>
        /\ out.is_nan_signaling <=>
               (/\ f_exp(fin[1].x) = exponent_inf_nan
                /\ f_man(fin[1].x) # 0
                /\ Bit(fin[1].x, MWidth - 1) = 0)
        /\ out.is_nan <=> (out.is_quiet_nan # out.is_nan_signaling)

(***************************************************************************)
(* FPFormat.standard.  The result is a record: ok is FALSE when the call   *)
(* raises ValueError, and otherwise e_width and m_width are the fields of  *)
(* the FPFormat returned.                                                  *)
(*                                                                         *)
(* round(4 * math.log2(width)) is computed on integers.  With              *)
(* width = f * 2^e, 1 <= f < 2, it is 4e plus the number of odd j in 1..7  *)
(* with f > 2^(j/8); Log2Thresholds holds floor(2^(20 + j/8)) for these j, *)
(* and f is compared scaled by 2^20, which is exact for widths below 2^21  *)
(* (4 * log2 of an integer is never half-way between two integers).        *)
(***************************************************************************)
WidthLimit == 1000000

Log2Thresholds == <<1143480, 1359834, 1617125, 1923096>>

round_4_log2(width) ==
    LET e == bits_for(width) - 1
        x == width * Pow2(20 - e)
    IN 4 * e + Cardinality({j \in 1 .. 4 : x > Log2Thresholds[j]})

FPFormat(ew, mw) == [ok |-> TRUE, e_width |-> ew, m_width |-> mw]

ValueError == [ok |-> FALSE]

\* faulty variant of standard: no upper limit on the width
standard_NoLimit(width) ==
    IF width = 16 THEN FPFormat(5, 10)
    ELSE IF width = 32 THEN FPFormat(8, 23)
    ELSE IF width = 64 THEN FPFormat(11, 52)
    ELSE IF width = 128 THEN FPFormat(15, 112)
    ELSE IF width > 128 /\ width % 32 = 0
         THEN LET ew == round_4_log2(width) - 13
              IN FPFormat(ew, width - 1 - ew)
    ELSE ValueError

standard(width) ==
    IF width = 16 THEN FPFormat(5, 10)
    ELSE IF width = 32 THEN FPFormat(8, 23)
    ELSE IF width = 64 THEN FPFormat(11, 52)
    ELSE IF width = 128 THEN FPFormat(15, 112)
    ELSE IF width > 128 /\ width % 32 = 0
         THEN IF width > WidthLimit THEN ValueError
              ELSE LET ew == round_4_log2(width) - 13
                   IN FPFormat(ew, width - 1 - ew)
    ELSE ValueError

\* FPFormat.width, has_sign being True
FPFormat_width(f) == 1 + f.e_width + f.m_width

\* the widths requested: every small one, the multiples of 32 up to 2048,
\* and those around the upper limit
RequestedWidths ==
    (0 .. 300) \cup {32 * k : k \in 1 .. 64}
    \cup ((WidthLimit - 64) .. (WidthLimit + 128))

InitStandard ==
    /\ \E width \in RequestedWidths : fin = <<[width |-> width]>>
    /\ send_i = [k \in Rows |-> 0]
    /\ slot = [k \in Rows |-> "Idle"]
    /\ rs = [k \in Rows |-> <<>>]
    /\ r1 = <<>>
    /\ r2 = <<>>
    /\ r3 = <<>>
    /\ do = [k \in Rows |-> <<>>]
    /\ recv = [k \in Rows |-> <<>>]
    /\ last = [op |-> "init", muxid |-> 0, ok |-> TRUE]
    /\ cyc = 0
    /\ ntrig = 0
    /\ out = <<>>
    /\ out_full = FALSE

ApplyStandard ==
    /\ ~out_full
    /\ out' = standard(fin[1].width)
    /\ out_full' = TRUE
    /\ UNCHANGED <<send_i, slot, rs, r1, r2, r3, do, recv, last, fin, cyc,
                   ntrig>>

NextStandard == ApplyStandard

SpecStandard == InitStandard /\ [][NextStandard]_vars

\* the four formats the function returns from its table
StandardTable(width) ==
    CASE width = 16 -> FPFormat(5, 10)
      [] width = 32 -> FPFormat(8, 23)
      [] width = 64 -> FPFormat(11, 52)
      [] width = 128 -> FPFormat(15, 112)

\* C23: standard(width) returns (5,10), (8,23), (11,52), (15,112) for
\* widths 16, 32, 64, 128; for a multiple of 32 above 128 and not above
\* 1000000 it returns exponent width round(4*log2(width)) - 13 and mantissa
\* width width - 1 - exponent width, so the format's total width is width
\* (binary256 has a 19-bit exponent); for every other width, those above
\* 1000000 included, it raises ValueError.
C23_StandardFormats ==
    out_full =>
        LET width == fin[1].width
        IN /\ width \in {16, 32, 64, 128} => out = StandardTable(width)
           /\ (width > 128 /\ width % 32 = 0 /\ width <= WidthLimit) =>
                  /\ out.ok
                  /\ out.e_width = round_4_log2(width) - 13
                  /\ out.m_width = width - 1 - out.e_width
                  /\ FPFormat_width(out) = width
                  /\ out.e_width > 0 /\ out.m_width > 0
           /\ width = 256 => out.e_width = 19
           /\ (/\ width \notin {16, 32, 64, 128}
               /\ ~(width > 128 /\ width % 32 = 0 /\ width <= WidthLimit)) =>
                  ~out.ok

\* the largest width accepted: 1000000 is a multiple of 32 and gets a
\* 67-bit exponent
C23_Witness ==
    /\ out_full
    /\ fin[1].width = WidthLimit
    /\ out.ok
    /\ out.e_width = 67
    /\ out.m_width = 999932

\* C23 as stated: every multiple of 32 above 128 gets a format
C23_Original ==
    out_full =>
        LET width == fin[1].width
        IN /\ width \in {16, 32, 64, 128} => out = StandardTable(width)
           /\ (width > 128 /\ width % 32 = 0) =>
                  /\ out.ok
                  /\ out.e_width = round_4_log2(width) - 13
                  /\ out.m_width = width - 1 - out.e_width
                  /\ FPFormat_width(out) = width
           /\ (/\ width \notin {16, 32, 64, 128}
               /\ ~(width > 128 /\ width % 32 = 0)) => ~out.ok

(***************************************************************************)
(* The add special-cases stage on its own: a state holds one operand pair  *)
(* with its rounding mode in fin, and the single action records the        *)
(* stage's outputs.                                                        *)
(***************************************************************************)
InitAddSpecialCases ==
    /\ \E a \in Values, b \in Values, rm \in FPRoundingMode :
          fin = <<[a |-> a, b |-> b, rm |-> rm, is_sub |-> FALSE,
                   muxid |-> 0]>>
    /\ send_i = [k \in Rows |-> 0]
    /\ slot = [k \in Rows |-> "Idle"]
    /\ rs = [k \in Rows |-> <<>>]
    /\ r1 = <<>>
    /\ r2 = <<>>
    /\ r3 = <<>>
    /\ do = [k \in Rows |-> <<>>]
    /\ recv = [k \in Rows |-> <<>>]
    /\ last = [op |-> "init", muxid |-> 0, ok |-> TRUE]
    /\ cyc = 0
    /\ ntrig = 0
    /\ out = <<>>
    /\ out_full = FALSE

ApplyAddSpecialCases ==
    /\ ~out_full
    /\ out' = FPAddSpecialCasesMod(fin[1])
    /\ out_full' = TRUE
    /\ UNCHANGED <<send_i, slot, rs, r1, r2, r3, do, recv, last, fin, cyc,
                   ntrig>>

NextAddSpecialCases == ApplyAddSpecialCases

SpecAddSpecialCases == InitAddSpecialCases /\ [][NextAddSpecialCases]_vars

\* C24: the bypass value oz of the add special-cases stage is the result of
\* the first match in the list: a NaN operand -> quieted NaN (A's if A is
\* NaN, else B's); A infinite -> canonical NaN if B is the opposite infinity,
\* else infinity with A's sign; B infinite -> infinity with B's sign; both
\* zero with equal sign -> A; A = -B -> zero with sign zero_sign(rm); A zero
\* -> B's bits; B zero -> A's bits.  out_do_z is set iff one of these
\* conditions holds; otherwise the decoded operands are handed on.
C24_AddSpecialCasePriority ==
    out_full =>
        LET a == fin[1].a
            b == fin[1].b
            signbit == Pow2(Width - 1)
            infbits == exponent_inf_nan * Pow2(MWidth)
            canonical == infbits + Pow2(MWidth - 1)
            quieted(x) == BitOr(x, Pow2(MWidth - 1), Width)
            rm_zero == IF fin[1].rm \in {RTN, RTON} THEN signbit ELSE 0
            expect ==
                IF f_is_nan(a) THEN <<quieted(a)>>
                ELSE IF f_is_nan(b) THEN <<quieted(b)>>
                ELSE IF f_is_inf(a)
                     THEN IF f_is_inf(b) /\ f_sign(b) # f_sign(a)
                          THEN <<canonical>>
                          ELSE <<f_sign(a) * signbit + infbits>>
                ELSE IF f_is_inf(b) THEN <<f_sign(b) * signbit + infbits>>
                ELSE IF f_is_zero(a) /\ f_is_zero(b)
                        /\ f_sign(a) = f_sign(b) THEN <<a>>
                ELSE IF a = f_neg(b) THEN <<rm_zero>>
                ELSE IF f_is_zero(a) THEN <<b>>
                ELSE IF f_is_zero(b) THEN <<a>>
                ELSE <<>>
        IN /\ out.out_do_z <=> (expect # <<>>)
           /\ expect # <<>> => out.oz = expect[1]
           /\ expect = <<>> =>
                  /\ out.a.s = f_sign(a)
                  /\ out.a.e = f_exp(a) - exponent_bias
                  /\ out.a.m = 8 * f_man(a)
                  /\ out.b.s = f_sign(b)
                  /\ out.b.e = f_exp(b) - exponent_bias
                  /\ out.b.m = 8 * f_man(b)

\* A is -0 and B is +Inf: three conditions of the list match (B infinite,
\* A zero, and later ones overridden), and the infinity came out
C24_Witness ==
    /\ out_full
    /\ f_is_zero(fin[1].a)
    /\ f_sign(fin[1].a) = 1
    /\ f_is_inf(fin[1].b)
    /\ f_sign(fin[1].b) = 0
    /\ out.out_do_z
    /\ out.oz = exponent_inf_nan * Pow2(MWidth)

(***************************************************************************)
(* The round stage on its own, on the tokens of InitPack: the single       *)
(* action records the stage's output.                                      *)
(***************************************************************************)
ApplyRoundStage ==
    /\ ~out_full
    /\ out' = FPRoundMod(fin[1])
    /\ out_full' = TRUE
    /\ UNCHANGED <<send_i, slot, rs, r1, r2, r3, do, recv, last, fin, cyc,
                   ntrig>>

NextRoundStage == ApplyRoundStage

SpecRoundStage == InitPack /\ [][NextRoundStage]_vars

\* C25: in the round stage, when round_up is set the mantissa is incremented
\* by one, and if it was all ones it wraps to zero and the exponent is
\* incremented by one; when round_up is clear mantissa and exponent pass
\* through.  The exponent is never incremented without the mantissa wrapping.
C25_RoundIncrements ==
    out_full =>
        LET i == fin[1]
            all_ones == i.z.m = Pow2(m_width_z) - 1
        IN /\ (i.roundz /\ all_ones) =>
                  (out.z.m = 0 /\ out.z.e = i.z.e + 1)
           /\ (i.roundz /\ ~all_ones) =>
                  (out.z.m = i.z.m + 1 /\ out.z.e = i.z.e)
           /\ ~i.roundz => (out.z.m = i.z.m /\ out.z.e = i.z.e)
           /\ out.z.e # i.z.e => (out.z.m = 0 /\ i.z.m # 0)
           /\ out.z.s = i.z.s

\* an all-ones mantissa at the largest normal exponent was rounded up: the
\* mantissa wrapped to zero and the exponent went up to P128
C25_Witness ==
    /\ out_full
    /\ fin[1].roundz
    /\ ~fin[1].out_do_z
    /\ fin[1].z.m = Pow2(m_width_z) - 1
    /\ fin[1].z.e = P127
    /\ out.z.m = 0
    /\ out.z.e = P128

(***************************************************************************)
(* The FMA pipeline up to and including normalize.  fin holds one input    *)
(* (a, b, c, the negate flags and the rounding mode); the single action    *)
(* runs the special-case/denormalize stage, the main stage and normalize,  *)
(* and records in out what each handed on: sc, post and norm.  The two     *)
(* rounding modes drawn are one of each zero sign; b and c are drawn with  *)
(* a clear sign bit, the signs of the product and of the addend being      *)
(* varied by a's sign and by the two negate flags.                         *)
(***************************************************************************)
NonNegValues == 0 .. (Pow2(Width - 1) - 1)

InitFMANorm ==
    /\ \E a \in Values, b \in NonNegValues, c \in NonNegValues,
          rm \in {RNE, RTN}, na \in {0, 1}, np \in {0, 1} :
          fin = <<[a |-> a, b |-> b, c |-> c, rm |-> rm,
                   negate_addend |-> na, negate_product |-> np,
                   muxid |-> 0]>>
    /\ send_i = [k \in Rows |-> 0]
    /\ slot = [k \in Rows |-> "Idle"]
    /\ rs = [k \in Rows |-> <<>>]
    /\ r1 = <<>>
    /\ r2 = <<>>
    /\ r3 = <<>>
    /\ do = [k \in Rows |-> <<>>]
    /\ recv = [k \in Rows |-> <<>>]
    /\ last = [op |-> "init", muxid |-> 0, ok |-> TRUE]
    /\ cyc = 0
    /\ ntrig = 0
    /\ out = <<>>
    /\ out_full = FALSE

ApplyFMANorm ==
    /\ ~out_full
    /\ \E sc \in {FPFMASpecialCasesDeNorm(fin[1])} :
          \E post \in {FPFMAMain(sc)} :
              out' = [sc |-> sc, post |-> post, norm |-> FPFMANorm(post)]
    /\ out_full' = TRUE
    /\ UNCHANGED <<send_i, slot, rs, r1, r2, r3, do, recv, last, fin, cyc,
                   ntrig>>

NextFMANorm == ApplyFMANorm

SpecFMANorm == InitFMANorm /\ [][NextFMANorm]_vars

\* number of leading zeros of the non-zero w-bit value m
leading_zeros(m, w) == w - bits_for(m)

\* the minimum normal exponent of the format
minimum_exponent == 1 - exponent_bias

\* C26: on every token the pipeline hands to it, FMA normalize shifts the
\* mantissa left by min(leading-zero count, exponent - minimum normal
\* exponent) and subtracts the same amount from the exponent, so the output
\* exponent is never below the minimum normal exponent; and when the input
\* mantissa is non-zero, as it is on every token that is not a bypass, the
\* output mantissa has its top bit set or the output exponent is the minimum.
C26_NormalizeShift ==
    out_full =>
        LET w == expanded_mantissa_shape
            mantissa == out.post.mantissa
            exponent == out.post.exponent
            room == exponent - minimum_exponent
            lz == IF mantissa = 0 THEN 0 ELSE leading_zeros(mantissa, w)
            shift == IF lz < room THEN lz ELSE room
            top == Bit(out.norm.z.m, m_width_z - 1)
        IN /\ room >= 0
           /\ out.norm.z.e = exponent - shift
           /\ out.norm.z.m =
                  ((mantissa * Pow2(shift)) % Pow2(w)) \div Pow2(w - m_width_z)
           /\ out.norm.z.e >= minimum_exponent
           /\ mantissa # 0 => (top = 1 \/ out.norm.z.e = minimum_exponent)
           /\ ~out.post.do_bypass => mantissa # 0

\* the product of two small subnormals plus a subnormal addend: the shift
\* stops at the minimum exponent with the top bit still clear
C26_Witness ==
    /\ out_full
    /\ ~out.post.do_bypass
    /\ f_exp(fin[1].a) = 0
    /\ f_exp(fin[1].b) = 0
    /\ f_exp(fin[1].c) = 0
    /\ out.norm.z.e = minimum_exponent
    /\ Bit(out.norm.z.m, m_width_z - 1) = 0
    /\ out.norm.z.m # 0
    /\ out.post.exponent > minimum_exponent

\* C26 as stated: the output mantissa has its top bit set or the output
\* exponent is the minimum on every input, a zero mantissa included
C26_Original ==
    out_full =>
        LET w == expanded_mantissa_shape
            mantissa == out.post.mantissa
            exponent == out.post.exponent
            room == exponent - minimum_exponent
            lz == IF mantissa = 0 THEN 0 ELSE leading_zeros(mantissa, w)
            shift == IF lz < room THEN lz ELSE room
        IN /\ out.norm.z.e = exponent - shift
           /\ out.norm.z.e >= minimum_exponent
           /\ \/ Bit(out.norm.z.m, m_width_z - 1) = 1
              \/ out.norm.z.e = minimum_exponent

(***************************************************************************)
(* The context through both pipelines, stage by stage.  The stage records  *)
(* carry the context in their muxid field; here the whole context is put   *)
(* there as one bit vector, the muxid in the low part and a one-bit opcode *)
(* above it.  fin holds one token: operands a, b, c, the flags, the        *)
(* rounding mode and the context attached at admission.  One action runs   *)
(* the add pipeline on (a, b), the other the FMA pipeline on (a, b, c);    *)
(* each records the context every stage handed on, and whether the token   *)
(* ended as a bypass.                                                      *)
(***************************************************************************)
CtxValues == {muxid + NumRows * op : muxid \in Rows, op \in {0, 1}}

InitCtx ==
    /\ \E a \in COperands, b \in Values, c \in COperands,
          ctx \in CtxValues, rm \in {RNE, RTN} :
          fin = <<[a |-> a, b |-> b, c |-> c, rm |-> rm, is_sub |-> FALSE,
                   negate_addend |-> 0, negate_product |-> 0,
                   muxid |-> ctx]>>
    /\ send_i = [k \in Rows |-> 0]
    /\ slot = [k \in Rows |-> "Idle"]
    /\ rs = [k \in Rows |-> <<>>]
    /\ r1 = <<>>
    /\ r2 = <<>>
    /\ r3 = <<>>
    /\ do = [k \in Rows |-> <<>>]
    /\ recv = [k \in Rows |-> <<>>]
    /\ last = [op |-> "init", muxid |-> 0, ok |-> TRUE]
    /\ cyc = 0
    /\ ntrig = 0
    /\ out = [add |-> <<>>, fma |-> <<>>]
    /\ out_full = FALSE

ApplyAddStages ==
    /\ out.add = <<>>
    /\ \E sc \in {FPAddSpecialCasesMod(fin[1])} :
       \E n \in {FPNorm1ModSingle(al) :
                   al \in {FPAddAlignSingleAdd(dn) :
                             dn \in {FPAddDeNormMod(sc)}}} :
       \E r \in {FPRoundMod(n)} :
       \E c \in {FPCorrectionsMod(r)} :
       \E p \in {FPPackMod(c)} :
          out' = [out EXCEPT !.add =
                     <<[specialcases |-> sc.muxid, round_i |-> n.muxid,
                        round |-> r.muxid, pack_i |-> c.muxid,
                        pack |-> p.muxid, out_do_z |-> c.out_do_z]>>]
    /\ out_full' = (out.fma # <<>>)
    /\ UNCHANGED <<send_i, slot, rs, r1, r2, r3, do, recv, last, fin, cyc,
                   ntrig>>

ApplyFMAStages ==
    /\ out.fma = <<>>
    /\ \E sc \in {FPFMASpecialCasesDeNorm(fin[1])} :
       \E post \in {FPFMAMain(sc)} :
       \E n \in {FPFMANorm(post)} :
       \E c \in {FPCorrectionsMod(r) : r \in {FPRoundMod(n)}} :
       \E p \in {FPPackMod(c)} :
          out' = [out EXCEPT !.fma =
                     <<[main_i |-> sc.muxid, main |-> post.muxid,
                        norm |-> n.muxid, pack_i |-> c.muxid,
                        pack |-> p.muxid, out_do_z |-> c.out_do_z]>>]
    /\ out_full' = (out.add # <<>>)
    /\ UNCHANGED <<send_i, slot, rs, r1, r2, r3, do, recv, last, fin, cyc,
                   ntrig>>

NextCtx ==
    \/ ApplyAddStages
    \/ ApplyFMAStages

SpecCtx == InitCtx /\ [][NextCtx]_vars

\* C27: the add special-cases, round and pack stages and the FMA main and
\* normalize stages each output the context (muxid and opcode) they were
\* given; hence the context at the output of either pipeline is the one
\* attached at admission, for every operand value, bypass or not.
C27_CtxCarriedUnchanged ==
    /\ out.add # <<>> =>
           /\ out.add[1].specialcases = fin[1].muxid
           /\ out.add[1].round = out.add[1].round_i
           /\ out.add[1].pack = out.add[1].pack_i
           /\ out.add[1].pack = fin[1].muxid
    /\ out.fma # <<>> =>
           /\ out.fma[1].main = out.fma[1].main_i
           /\ out.fma[1].norm = out.fma[1].main
           /\ out.fma[1].pack = out.fma[1].pack_i
           /\ out.fma[1].pack = fin[1].muxid

\* a token with the last muxid and opcode 1 went through both pipelines: a
\* bypass in the FMA pipeline and a computed result in the add pipeline
C27_Witness ==
    /\ out_full
    /\ fin[1].muxid = (NumRows - 1) + NumRows * 1
    /\ out.fma[1].out_do_z
    /\ ~out.add[1].out_do_z
    /\ out.add[1].pack = fin[1].muxid
    /\ out.fma[1].pack = fin[1].muxid

(***************************************************************************)
(* FPADDBasePipe with tokens of different rounding modes in flight.  fin   *)
(* is the sequence of tokens admitted so far and out the sequence of       *)
(* results that left the pipeline, the output side being always ready.     *)
(* The first token is admitted in the first cycle.  In every later cycle   *)
(* the input port presents the same operands with another rounding mode,   *)
(* either as a valid token, which is admitted, or with valid low, as the   *)
(* formal test does when it drives rm to 0 after the first cycle; what the *)
(* port presents with valid low is not latched.                            *)
(***************************************************************************)
LaterModes == {RTP, RTN}

InitInFlight ==
    /\ \E a \in Values, b \in COperands, rm \in FPRoundingMode :
          fin = <<[a |-> a, b |-> b, rm |-> rm, is_sub |-> FALSE,
                   muxid |-> 0]>>
    /\ send_i = [k \in Rows |-> 0]
    /\ slot = [k \in Rows |-> "Idle"]
    /\ rs = [k \in Rows |-> <<>>]
    /\ r1 = <<>>
    /\ r2 = <<>>
    /\ r3 = <<>>
    /\ do = [k \in Rows |-> <<>>]
    /\ recv = [k \in Rows |-> <<>>]
    /\ last = [op |-> "init", muxid |-> 0, ok |-> TRUE]
    /\ cyc = 0
    /\ ntrig = 0
    /\ out = <<>>
    /\ out_full = FALSE

\* one clock cycle with inq offered at the input
ClockInFlight(inq) ==
    \E adv \in {PipeAdvance(inq, r1, r2, <<>>)} :
    LET trigger == r3 # <<>>
    IN /\ cyc < Depth
       /\ cyc' = cyc + 1
       /\ out' = IF trigger THEN Append(out, r3[1].z) ELSE out
       /\ out_full' = (out_full \/ trigger)
       /\ ntrig' = IF trigger THEN ntrig + 1 ELSE ntrig
       /\ r1' = adv.r1
       /\ r2' = adv.r2
       /\ r3' = adv.r3
       /\ fin' = IF cyc > 0 /\ adv.took THEN Append(fin, inq[1]) ELSE fin
       /\ UNCHANGED <<send_i, slot, rs, do, recv, last>>

AdmitFirst ==
    /\ cyc = 0
    /\ ClockInFlight(<<fin[1]>>)

AdmitLater ==
    /\ cyc > 0
    /\ \E rm \in LaterModes : ClockInFlight(<<[fin[1] EXCEPT !.rm = rm]>>)

PresentOnly ==
    /\ cyc > 0
    /\ \E rm \in LaterModes : ClockInFlight(<<>>)

NextInFlight ==
    \/ AdmitFirst
    \/ AdmitLater
    \/ PresentOnly

SpecInFlight == InitInFlight /\ [][NextInFlight]_vars

exact_sum_is_zero(a, b, c, ps, bs) ==
    LET p == f_sig(a) * f_sig(c)
        pe == f_e(a) + f_e(c) + 1 - exponent_bias - MWidth
        bm == f_sig(b)
        be == f_e(b)
        q == IF pe < be THEN pe ELSE be
        pv == p * Pow2(pe - q)
        bv == bm * Pow2(be - q)
    IN IF ps = bs THEN pv = 0 /\ bv = 0 ELSE pv = bv

\* C29: a token that reaches FMA normalize with do_bypass clear has a
\* non-zero mantissa, so the leading-one search finds a set bit: when the
\* sum is exactly zero and the special-case stage did not already bypass,
\* the main stage makes the token a bypass of zero with sign zero_sign(rm).
C29_ZeroSumBypassed ==
    out_full =>
        LET a == fin[1].a
            b == fin[1].b
            c == fin[1].c
            ps == (f_sign(a) + f_sign(c) + fin[1].negate_product) % 2
            bs == (f_sign(b) + fin[1].negate_addend) % 2
            finite == /\ f_exp(a) # exponent_inf_nan
                      /\ f_exp(b) # exponent_inf_nan
                      /\ f_exp(c) # exponent_inf_nan
            rm_zero == IF fin[1].rm \in {RTN, RTON} THEN Pow2(Width - 1)
                       ELSE 0
        IN /\ ~out.post.do_bypass =>
                  /\ out.post.mantissa # 0
                  /\ out.post.mantissa < Pow2(expanded_mantissa_shape - 1)
                  /\ Bit(out.norm.z.m, m_width_z - 1) = 1
                     \/ out.norm.z.e = minimum_exponent
           /\ (finite /\ ~out.sc.do_bypass
               /\ exact_sum_is_zero(a, b, c, ps, bs)) =>
                  /\ out.post.do_bypass
                  /\ out.post.bypassed_z = rm_zero
                  /\ out.norm.out_do_z
                  /\ out.norm.oz = rm_zero
           /\ (finite /\ ~out.sc.do_bypass
               /\ ~exact_sum_is_zero(a, b, c, ps, bs)) =>
                  ~out.post.do_bypass

\* a non-zero product and the addend cancel exactly under RTN: the special-
\* case stage let the token through and the main stage made it a bypass -0
C29_Witness ==
    /\ out_full
    /\ fin[1].rm = RTN
    /\ ~f_is_zero(fin[1].a)
    /\ ~f_is_zero(fin[1].b)
    /\ ~f_is_zero(fin[1].c)
    /\ ~out.sc.do_bypass
    /\ out.post.mantissa = 0
    /\ out.post.do_bypass
    /\ out.post.bypassed_z = Pow2(Width - 1)

\* the unbiased exponent of a packed value, a subnormal having the minimum
unbiased_exponent(x) ==
    IF f_exp(x) = 0 THEN minimum_exponent ELSE f_exp(x) - exponent_bias

\* C30: for every input (a, b, c) the exponent that reaches FMA normalize is
\* max(product exponent, addend exponent + EXPANDED_MANTISSA_EXTRA_MSBS) and
\* is at least the minimum normal exponent, so the clamp value
\* exponent - (1 + e_sub) is never negative and the shift amount, which is
\* at most the clamp value and less than the mantissa width, never wraps.
C30_ExponentAtLeastMinimum ==
    out_full =>
        LET w == expanded_mantissa_shape
            prod_exponent == unbiased_exponent(fin[1].a)
                             + unbiased_exponent(fin[1].c)
                             + (w - product_mantissa_shape + 1
                                - EXPANDED_MANTISSA_EXTRA_LSBS)
            b_exponent == unbiased_exponent(fin[1].b)
                          + EXPANDED_MANTISSA_EXTRA_MSBS
            exponent == out.post.exponent
            clamp == exponent - (1 + e_sub)
            shift == exponent - out.norm.z.e
        IN /\ exponent = IF prod_exponent >= b_exponent THEN prod_exponent
                         ELSE b_exponent
           /\ exponent = out.sc.exponent
           /\ exponent >= minimum_exponent
           /\ clamp >= 0
           /\ shift >= 0 /\ shift <= clamp /\ shift < w

\* a subnormal times a subnormal plus a large addend: the product exponent
\* is the smallest there is, the addend's exponent is taken, and the shift
\* is the number of extra top bits
C30_Witness ==
    /\ out_full
    /\ f_exp(fin[1].a) = 0 /\ f_man(fin[1].a) # 0
    /\ f_exp(fin[1].c) = 0 /\ f_man(fin[1].c) # 0
    /\ f_exp(fin[1].b) = exponent_inf_nan - 1
    /\ ~out.post.do_bypass
    /\ out.post.exponent
           = unbiased_exponent(fin[1].b) + EXPANDED_MANTISSA_EXTRA_MSBS
    /\ out.post.exponent - out.norm.z.e > 0

====
